---- MODULE Spec2Model ----
(***************************************************************************)
(* fuse-spectrum: a CP/M-family directory filesystem (HCFS and CPMFS) on    *)
(* top of a sector-addressed disk image.  The model follows the source:     *)
(* src/src/hcfs.cpp + src/src/hcfs.h (HC variant), src/unnamed/part_004 +   *)
(* src/unnamed/part_000 (CP/M variant and main), src/unnamed/part_003 (the  *)
(* FUSE adaptor), src/unnamed/part_001 (DiskProperties), src/src/diskpos.h, *)
(* src/src/dsk.cpp and src/src/imd.cpp (the image containers).              *)
(*                                                                         *)
(* Byte vectors (std::vector<unsigned char>) are kept run-length encoded:   *)
(* a sequence of <<count, value>> runs in normal form (no empty run, no two *)
(* adjacent runs of the same value).  Every operation on them is exact.     *)
(***************************************************************************)
EXTENDS Integers, Sequences, FiniteSets, TLC

VARIABLES
    kind,        \* "hc" or "cpm": the filesystem class main() instantiates
    props,       \* DiskProperties of the loaded image
    file,        \* the image file on the host: what Disk::save last wrote
    phase,       \* "mounted" (fuse_main running) or "unmounted"
    sectors,     \* Disk: linear position -> sector payload (<<>> = none)
    modified,    \* Disk::modified()
    fatEntries,  \* HCFS::fatEntries_ / CPMFS::fatEntries_
    dirty,       \* history: a callback of this session changed directory or data
    remounted,   \* history: no callback has run since the last mount
    last,        \* history: the last callback, its arguments and its result
    life,        \* history: how far "create, write, unlink" of one new file has come
    ops,         \* number of mutating callbacks so far
    mounts,      \* number of mounts so far
    saved,       \* history: Disk::save ran when the session ended
    pc,          \* the threads of the FUSE loop: where each is in its callback
    lock,        \* Filesystem::mutex_: how each thread holds it
    snapshot,    \* history: directory and image after the last whole mutating callback
    img,         \* a DSK or IMD object on its own: tracks_, sectors_, properties_
    probe        \* the arguments and the result of a DiskPos or ipos call on its own

vars == <<kind, props, file, phase, sectors, modified, fatEntries, dirty, remounted, last,
          life, ops, mounts, saved, pc, lock, snapshot, img, probe>>

----------------------------------------------------------------------------
(* Program constants                                                        *)

HCFS_RECORD_SIZE == 128
HCFS_BLOCK_SIZE == 2048
HCFS_FREE_BYTE == 229
HCFS_FILENAME_MAXSIZE == 11
HCFS_MAX_ALLOCATION_UNITS == 8
FATENTRY_SIZE == 32

Errno == [ENOENT |-> 2, EIO |-> 5, EEXIST |-> 17, ENOSPC |-> 28]

interleave640_ == <<0, 2, 4, 6, 8, 10, 12, 14, 1, 3, 5, 7, 9, 11, 13, 15>>
interleave320_ == <<0, 2, 4, 6, 8, 1, 3, 5, 7>>

\* CPMFS::dpb_.off_ (reserved tracks) and CPMFS::interleave_ of cpmfs.h
dpbOffCpm == 2
interleaveCpm_ == <<0, 2, 4, 6, 8, 1, 3, 5, 7>>

\* DiskParameterBlock::off_ (reserved tracks)
DpbOff(k) == IF k = "cpm" THEN dpbOffCpm ELSE 0

----------------------------------------------------------------------------
(* Bounds of the model                                                      *)

\* cylinders of the image beyond the reserved ones
Tracks == 6

\* mutating callbacks (create, unlink, truncate, write) of one run
MaxOps == 3

\* mounts of the image in one run
MaxMounts == 2

----------------------------------------------------------------------------
(* Byte vectors, run-length encoded                                         *)

RECURSIVE BLen(_)
BLen(b) ==
    IF b = <<>> THEN 0
    ELSE IF Len(b) = 1 THEN b[1][1]
    ELSE BLen(SubSeq(b, 1, Len(b) \div 2)) + BLen(SubSeq(b, Len(b) \div 2 + 1, Len(b)))

BFill(n, v) == IF n <= 0 THEN <<>> ELSE << <<n, v>> >>

BCat(a, b) ==
    IF a = <<>> THEN b
    ELSE IF b = <<>> THEN a
    ELSE IF a[Len(a)][2] = b[1][2]
         THEN SubSeq(a, 1, Len(a) - 1)
              \o << <<a[Len(a)][1] + b[1][1], b[1][2]>> >>
              \o Tail(b)
         ELSE a \o b

RECURSIVE BTake(_, _)
BTake(b, n) ==
    IF n <= 0 \/ b = <<>> THEN <<>>
    ELSE IF b[1][1] <= n THEN <<b[1]>> \o BTake(Tail(b), n - b[1][1])
    ELSE << <<n, b[1][2]>> >>

RECURSIVE BDrop(_, _)
BDrop(b, n) ==
    IF n <= 0 \/ b = <<>> THEN b
    ELSE IF b[1][1] <= n THEN BDrop(Tail(b), n - b[1][1])
    ELSE << <<b[1][1] - n, b[1][2]>> >> \o Tail(b)

\* bytes [off, off + n) of b
BSub(b, off, n) == BTake(BDrop(b, off), n)

\* memcpy(b.data() + off, data, |data|)
BPatch(b, off, data) ==
    BCat(BCat(BTake(b, off), data), BDrop(b, off + BLen(data)))

\* a plain sequence of byte values -> byte vector
RECURSIVE BFromSeq(_)
BFromSeq(s) ==
    IF s = <<>> THEN <<>>
    ELSE IF Len(s) = 1 THEN << <<1, s[1]>> >>
    ELSE BCat(BFromSeq(SubSeq(s, 1, Len(s) \div 2)),
              BFromSeq(SubSeq(s, Len(s) \div 2 + 1, Len(s))))

\* byte vector -> plain sequence of byte values
RECURSIVE BToSeq(_)
BToSeq(b) ==
    IF b = <<>> THEN <<>>
    ELSE IF Len(b) = 1 THEN [i \in 1..b[1][1] |-> b[1][2]]
    ELSE BToSeq(SubSeq(b, 1, Len(b) \div 2)) \o BToSeq(SubSeq(b, Len(b) \div 2 + 1, Len(b)))

Min(a, b) == IF a <= b THEN a ELSE b

(* unsigned arithmetic: an unsigned value that wrapped below zero is kept as
   its negative representative (v - 2^width), which no loop of the program
   brings back to zero; "n > 0" on an unsigned n is NonZero(n), and the
   smaller of two unsigned values treats a negative representative as huge *)
NonZero(n) == n # 0

UMin(a, b) == IF a < 0 THEN b ELSE IF b < 0 THEN a ELSE Min(a, b)

\* F(v), with v computed once
Bind(v, F(_)) == CHOOSE r \in {F(x) : x \in {v}} : TRUE

----------------------------------------------------------------------------
(* DiskProperties and DiskPos                                               *)

DiskProperties(tracks, heads, nsectors, sectorSize) ==
    [tracks |-> tracks, heads |-> heads, sectors |-> nsectors, sectorSize |-> sectorSize]

sectorsPerTrack(p) == p.sectors * p.heads

DiskSize(p) == p.tracks * p.sectors * p.heads * p.sectorSize

maxPos(p) ==
    IF p.tracks * p.sectors * p.heads # 0 THEN p.tracks * p.sectors * p.heads - 1 ELSE 0

\* a validate that compares the track with "<=" (variant)
laxValidate(p, track, head, sector) ==
    track <= p.tracks /\ head < p.heads /\ sector < p.sectors

\* DiskProperties::validate: TRUE iff it does not throw
validate(p, track, head, sector) ==
    track < p.tracks /\ head < p.heads /\ sector < p.sectors

\* DiskPos(props, pos): position -> (track, head, sector)
DiskPosOf(p, pos) ==
    [track  |-> pos \div sectorsPerTrack(p),
     head   |-> (pos % sectorsPerTrack(p)) \div p.sectors,
     sector |-> (pos % sectorsPerTrack(p)) % p.sectors]

\* DiskPos(props, track, head, sector).pos()
DiskPosAt(p, track, head, sector) ==
    track * sectorsPerTrack(p) + head * p.sectors + sector

----------------------------------------------------------------------------
(* Disk (disk.h): the sparse sector map behind read/write                   *)

\* a disk state: s = position -> payload, m = modified_, x = an exception escaped
DiskState(s, m, x) == [s |-> s, m |-> m, x |-> x]

\* Disk::read(pos): the stored sector, or the empty sector
DiskRead(s, pos) == IF pos \in DOMAIN s THEN s[pos] ELSE <<>>

\* Disk::write(pos, sector): throws on a bad position or a bad sector length
DiskWriteThrows(p, pos, data) ==
    \/ pos > maxPos(p)
    \/ (data # <<>> /\ BLen(data) # p.sectorSize)

DiskWrite(p, d, pos, data) ==
    IF d.x THEN d
    ELSE IF DiskWriteThrows(p, pos, data) THEN [d EXCEPT !.x = TRUE]
    ELSE [d EXCEPT !.s = IF pos \in DOMAIN d.s THEN [d.s EXCEPT ![pos] = data]
                         ELSE [q \in DOMAIN d.s \cup {pos} |-> IF q = pos THEN data ELSE d.s[q]],
                   !.m = TRUE]

----------------------------------------------------------------------------
(* Block I/O of the filesystem                                              *)

\* CPMFS::firstBlock_; HCFS has none (its off_ is 0)
firstBlock(k, p) ==
    IF k = "cpm"
    THEN (DpbOff(k) * sectorsPerTrack(p) * p.sectorSize) \div HCFS_BLOCK_SIZE
    ELSE 0

\* sectors in their logical order (variant without interleave)
straightTable(k, p) == [i \in 1..p.sectors |-> i - 1]

\* the interleave table ipos uses
InterleaveTable(k, p) ==
    IF k = "cpm" THEN interleaveCpm_
    ELSE IF Len(interleave640_) = p.sectors THEN interleave640_ ELSE interleave320_

\* ipos(pos) returns (does not throw)
iposOk(k, p, pos) ==
    LET a == DiskPosOf(p, pos) IN
    /\ validate(p, a.track, a.head, a.sector)
    /\ a.sector + 1 <= Len(InterleaveTable(k, p))
    /\ validate(p, a.track, a.head, InterleaveTable(k, p)[a.sector + 1])

ipos(k, p, pos) ==
    LET a == DiskPosOf(p, pos) IN
    DiskPosAt(p, a.track, a.head, InterleaveTable(k, p)[a.sector + 1])

SectorsPerBlock(p) == HCFS_BLOCK_SIZE \div p.sectorSize

BlockStart(k, p, block) == ((firstBlock(k, p) + block) * HCFS_BLOCK_SIZE) \div p.sectorSize

\* readBlock/writeBlock of a whole block reach only valid positions
BlockOk(k, p, block) ==
    \A i \in 0..(SectorsPerBlock(p) - 1) : iposOk(k, p, BlockStart(k, p, block) + i)

\* what a sector without data adds to the buffer of readBlock:
\* HCFS: buf.insert(end, 0, sectorSize) inserts no byte;
\* CPMFS: buf.insert(end, sectorSize, 0) inserts sectorSize zero bytes
EmptySectorFill(k, p) == IF k = "cpm" THEN BFill(p.sectorSize, 0) ELSE <<>>

RECURSIVE readSectors(_, _, _, _, _)
readSectors(k, p, s, start, n) ==
    IF n = 0 THEN <<>>
    ELSE LET sec == DiskRead(s, ipos(k, p, start))
         IN BCat(IF sec = <<>> THEN EmptySectorFill(k, p) ELSE sec,
                 readSectors(k, p, s, start + 1, n - 1))

readBlock(k, p, s, block) ==
    readSectors(k, p, s, BlockStart(k, p, block), SectorsPerBlock(p))

\* writeBlock: every full sector of buf, then the rest (if any) as a short sector
RECURSIVE writeSectors(_, _, _, _, _)
writeSectors(k, p, d, pos, buf) ==
    IF d.x \/ buf = <<>> THEN d
    ELSE IF ~iposOk(k, p, pos) THEN [d EXCEPT !.x = TRUE]
    ELSE writeSectors(k, p,
                      DiskWrite(p, d, ipos(k, p, pos), BTake(buf, p.sectorSize)),
                      pos + 1, BDrop(buf, p.sectorSize))

writeBlock(k, p, d, block, buf) == writeSectors(k, p, d, BlockStart(k, p, block), buf)

----------------------------------------------------------------------------
(* FATEntry (hcfs.h, cpmfs.h)                                               *)

SPACE == 32

Pad(n, v) == [i \in 1..n |-> v]

\* FATEntry::clear()
clear(e) ==
    [userCode        |-> HCFS_FREE_BYTE,
     name            |-> Pad(HCFS_FILENAME_MAXSIZE, SPACE),
     exLo            |-> 0,
     reserved        |-> 0,
     exHi            |-> 0,
     recordCount     |-> 0,
     allocationUnits |-> Pad(HCFS_MAX_ALLOCATION_UNITS, 0)]

\* FATEntry::free()
free(e) == e.userCode = HCFS_FREE_BYTE

\* FATEntry::extent() of hcfs.h
extentHc(e) == e.exLo # 0

\* FATEntry::extent() of cpmfs.h: the low extent byte alone decides
extentCpm(e) == e.exLo # 0

extent(k, e) == IF k = "cpm" THEN extentCpm(e) ELSE extentHc(e)

\* FATEntry::full()
full(e) ==
    e.recordCount >= (HCFS_MAX_ALLOCATION_UNITS * HCFS_BLOCK_SIZE) \div HCFS_RECORD_SIZE

RECURSIVE StripSpaces(_)
StripSpaces(s) ==
    IF s # <<>> /\ s[Len(s)] = SPACE THEN StripSpaces(SubSeq(s, 1, Len(s) - 1)) ELSE s

\* FATEntry::name(): 7-bit characters, trailing spaces removed, '/' shown as '?'
name(e) ==
    LET masked   == [i \in 1..Len(e.name) |-> e.name[i] % 128]
        stripped == StripSpaces(masked)
    IN [i \in 1..Len(stripped) |-> IF stripped[i] = 47 THEN 63 ELSE stripped[i]]

\* FATEntry::setName(name)
setName(e, nm) ==
    [e EXCEPT !.name = [i \in 1..HCFS_FILENAME_MAXSIZE |->
                            IF i <= Len(nm) THEN nm[i] ELSE SPACE]]

\* FATEntry::operator==(string)
NameEq(e, str) == name(e) = str

\* FATEntry::size()
size(e) == e.recordCount * HCFS_RECORD_SIZE

\* a variant of blocks() that counts every slot, empty or not
allUnits(e) == HCFS_MAX_ALLOCATION_UNITS

\* FATEntry::blocks()
blocks(e) == Cardinality({j \in 1..HCFS_MAX_ALLOCATION_UNITS : e.allocationUnits[j] # 0})

\* the 32 bytes of a packed FATEntry (allocation units little-endian)
EntryBytes(e) ==
    <<e.userCode>> \o e.name \o <<e.exLo, e.reserved, e.exHi, e.recordCount>>
    \o [j \in 1..(2 * HCFS_MAX_ALLOCATION_UNITS) |->
            IF j % 2 = 1 THEN e.allocationUnits[(j + 1) \div 2] % 256
            ELSE e.allocationUnits[j \div 2] \div 256]

\* the FATEntry read from 32 bytes at offset off of a plain byte sequence
EntryAt(raw, off) ==
    [userCode        |-> raw[off + 1],
     name            |-> [i \in 1..HCFS_FILENAME_MAXSIZE |-> raw[off + 1 + i]],
     exLo            |-> raw[off + 13],
     reserved        |-> raw[off + 14],
     exHi            |-> raw[off + 15],
     recordCount     |-> raw[off + 16],
     allocationUnits |-> [j \in 1..HCFS_MAX_ALLOCATION_UNITS |->
                             raw[off + 15 + 2 * j] + 256 * raw[off + 16 + 2 * j]]]

\* the entries one directory block holds: buf.size() / sizeof(FATEntry) of them
EntriesOf(buf) ==
    Bind(BToSeq(buf), LAMBDA raw :
         [i \in 1..(Len(raw) \div FATENTRY_SIZE) |-> EntryAt(raw, (i - 1) * FATENTRY_SIZE)])

\* loadFAT(): the directory is read from blocks 0 and 1 of the data area
loadFAT(k, p, s) ==
    EntriesOf(readBlock(k, p, s, 0)) \o EntriesOf(readBlock(k, p, s, 1))

\* the constructor returns: an interleave exists and the directory blocks are on the disk
MountOk(k, p) ==
    /\ IF k = "cpm" THEN Len(interleaveCpm_) = p.sectors
       ELSE Len(interleave640_) = p.sectors \/ Len(interleave320_) = p.sectors
    /\ BlockOk(k, p, 0) /\ BlockOk(k, p, 1)

\* number of blocks of the data area (the size of freeBlocks and blockMap)
DataBlocks(k, p) == DiskSize(p) \div HCFS_BLOCK_SIZE - firstBlock(k, p)

\* allocation units of the entries that are not free
UsedUnits(fat) ==
    {fat[i].allocationUnits[j] : i \in {i2 \in 1..Len(fat) : ~free(fat[i2])},
                                 j \in 1..HCFS_MAX_ALLOCATION_UNITS}

\* a variant of the map that marks no block of an entry as taken
unmarkedBlocks(k, p, fat) == (0..(DataBlocks(k, p) - 1)) \ {0, 1}

\* freeBlocks of saveFAT / blockMap of truncate: the blocks marked free
FreeBlocks(k, p, fat) == (0..(DataBlocks(k, p) - 1)) \ ({0, 1} \cup UsedUnits(fat))

\* vector::at() throws while the map is built
FreeMapThrows(k, p, fat) ==
    \/ DataBlocks(k, p) < 2
    \/ \E au \in UsedUnits(fat) : au >= DataBlocks(k, p)

\* the directory as bytes: the entries from..to, one after the other
RECURSIVE FatBytes(_, _, _)
FatBytes(fat, from, to) ==
    IF from > to THEN <<>>
    ELSE IF from = to THEN BFromSeq(EntryBytes(fat[from]))
    ELSE LET mid == (from + to) \div 2
         IN BCat(FatBytes(fat, from, mid), FatBytes(fat, mid + 1, to))

\* saveFAT, first loop: every free block is written with 0xE5
RECURSIVE wipeFree(_, _, _, _, _)
wipeFree(k, p, d, fb, block) ==
    IF d.x \/ block >= DataBlocks(k, p) THEN d
    ELSE wipeFree(k, p,
                  IF block \in fb
                  THEN writeBlock(k, p, d, block, BFill(HCFS_BLOCK_SIZE, HCFS_FREE_BYTE))
                  ELSE d,
                  fb, block + 1)

\* saveFAT, second part: whole blocks i of the directory go to block i, the
\* rest (r bytes) goes to block buf.size() / BLOCK_SIZE + 1
RECURSIVE writeFat(_, _, _, _, _)
writeFat(k, p, d, buf, i) ==
    IF d.x THEN d
    ELSE IF BLen(buf) >= HCFS_BLOCK_SIZE
    THEN writeFat(k, p, writeBlock(k, p, d, i, BTake(buf, HCFS_BLOCK_SIZE)),
                  BDrop(buf, HCFS_BLOCK_SIZE), i + 1)
    ELSE IF buf # <<>> THEN writeBlock(k, p, d, i + 1, buf)
    ELSE d

\* a destructor that leaves the directory and the free blocks as they are
noFlush(k, p, d, fat) == d

\* saveFAT()
saveFAT(k, p, d, fat) ==
    IF ~d.m THEN d
    ELSE IF FreeMapThrows(k, p, fat) THEN [d EXCEPT !.x = TRUE]
    ELSE writeFat(k, p,
                  wipeFree(k, p, d, FreeBlocks(k, p, fat), 0),
                  FatBytes(fat, 1, Len(fat)), 0)

----------------------------------------------------------------------------
(* Paths (std::filesystem::path of an absolute path without trailing '/')    *)

SLASH == 47

LastSlash(path) ==
    LET at == {i \in 1..Len(path) : path[i] = SLASH}
    IN IF at = {} THEN 0 ELSE CHOOSE i \in at : \A j \in at : j <= i

\* path.filename()
Filename(path) == SubSeq(path, LastSlash(path) + 1, Len(path))

\* path.parent_path()
ParentPath(path) ==
    IF LastSlash(path) = 0 THEN <<>>
    ELSE IF LastSlash(path) = 1 THEN <<SLASH>>
    ELSE SubSeq(path, 1, LastSlash(path) - 1)

Root == <<SLASH>>

----------------------------------------------------------------------------
(* The filesystem operations (HCFS::x and CPMFS::x)                          *)

\* the least element of a set of indices, 0 for the empty set
First(S) == IF S = {} THEN 0 ELSE CHOOSE i \in S : \A j \in S : i <= j

\* find(path): index of the first entry that is not free, is no extent and
\* carries the name; 0 when there is none
find(k, fat, str) ==
    First({i \in 1..Len(fat) : ~free(fat[i]) /\ ~extent(k, fat[i]) /\ NameEq(fat[i], str)})

\* a set of indices in ascending order
RECURSIVE SortedSeq(_)
SortedSeq(S) ==
    IF S = {} THEN <<>>
    ELSE Bind(First(S), LAMBDA m : <<m>> \o SortedSeq(S \ {m}))

\* the entries a loop "for (entry : fatEntries_)" does not skip with
\* "if (entry.free()) continue; if (entry != filename) continue;"
Entries(fat, fname) == SortedSeq({i \in 1..Len(fat) : ~free(fat[i]) /\ NameEq(fat[i], fname)})

\* the loop of getattr and truncate: size, blocks and number of the entries
\* of the name, up to and including the first one that is not full
RECURSIVE sizeLoop(_, _, _, _)
sizeLoop(fat, idx, j, acc) ==
    IF j > Len(idx) THEN acc
    ELSE Bind([size    |-> acc.size + size(fat[idx[j]]),
               blocks  |-> acc.blocks + blocks(fat[idx[j]]),
               entries |-> acc.entries + 1], LAMBDA acc2 :
         IF ~full(fat[idx[j]]) THEN acc2 ELSE sizeLoop(fat, idx, j + 1, acc2))

FileStat(fat, fname) ==
    sizeLoop(fat, Entries(fat, fname), 1, [size |-> 0, blocks |-> 0, entries |-> 0])

\* getattr(path)
getattr(k, fat, path) ==
    IF ParentPath(path) # Root THEN [ret |-> -Errno.ENOENT, dir |-> FALSE, st_size |-> 0]
    ELSE IF path = Root
    THEN [ret |-> 0, dir |-> TRUE,
          st_size |-> 2 * Cardinality({i \in 1..Len(fat) : ~free(fat[i]) /\ ~extent(k, fat[i])})]
    ELSE Bind(FileStat(fat, Filename(path)), LAMBDA st :
         IF st.entries # 0 THEN [ret |-> 0, dir |-> FALSE, st_size |-> st.size]
         ELSE [ret |-> -Errno.ENOENT, dir |-> FALSE, st_size |-> 0])

\* unlink(path)
unlink(k, fat, path) ==
    IF ParentPath(path) # Root THEN [fat |-> fat, ret |-> -Errno.ENOENT]
    ELSE Bind(find(k, fat, Filename(path)), LAMBDA i :
         IF i = 0 THEN [fat |-> fat, ret |-> -Errno.ENOENT]
         ELSE [fat |-> [fat EXCEPT ![i] = clear(fat[i])], ret |-> 0])

\* open(path) and release(path)
open(k, fat, path) ==
    IF ParentPath(path) # Root THEN -Errno.ENOENT
    ELSE IF find(k, fat, Filename(path)) # 0 THEN 0
    ELSE -Errno.ENOENT

\* create(path): find is given the whole path, not its filename
create(k, fat, path) ==
    IF ParentPath(path) # Root THEN [fat |-> fat, ret |-> -Errno.ENOENT]
    ELSE IF find(k, fat, path) # 0 THEN [fat |-> fat, ret |-> -Errno.EEXIST]
    ELSE Bind(First({i \in 1..Len(fat) : free(fat[i])}), LAMBDA i :
         IF i = 0 THEN [fat |-> fat, ret |-> -Errno.ENOSPC]
         ELSE [fat |-> [fat EXCEPT ![i] =
                           setName([clear(fat[i]) EXCEPT !.userCode = 0], Filename(path))],
               ret |-> 0])

\* the sum of blocks() over the entries with the indices S
RECURSIVE SumBlocks(_, _)
SumBlocks(fat, S) ==
    IF S = {} THEN 0
    ELSE Bind(First(S), LAMBDA i : blocks(fat[i]) + SumBlocks(fat, S \ {i}))

\* statfs(path); totalBlocks and usedBlocks are unsigned ints, a negative
\* f_blocks or f_bfree stands for the wrapped value
statfs(k, p, fat, path) ==
    IF path # Root THEN [ret |-> -Errno.ENOENT]
    ELSE Bind({i \in 1..Len(fat) : ~free(fat[i])}, LAMBDA notFree :
         Bind(DataBlocks(k, p) - 2, LAMBDA totalBlocks :
         Bind(totalBlocks - SumBlocks(fat, notFree), LAMBDA bfree :
         [ret |-> 0, f_bsize |-> HCFS_BLOCK_SIZE, f_frsize |-> HCFS_BLOCK_SIZE,
          f_blocks |-> totalBlocks, f_bfree |-> bfree, f_bavail |-> bfree,
          f_files |-> Len(fat),
          f_ffree |-> Len(fat) - Cardinality(notFree),
          f_favail |-> Len(fat) - Cardinality(notFree),
          f_namemax |-> HCFS_FILENAME_MAXSIZE])))

\* readdir(path): cbFull = the fill callback reports a full buffer at its first call
readdir(k, fat, path, cbFull) ==
    IF path # Root THEN [ret |-> -Errno.ENOENT, calls |-> 0, names |-> <<>>]
    ELSE Bind(SortedSeq({i \in 1..Len(fat) : ~free(fat[i]) /\ ~extent(k, fat[i])}), LAMBDA idx :
         IF idx = <<>> THEN [ret |-> -Errno.ENOENT, calls |-> 0, names |-> <<>>]
         ELSE IF cbFull
         THEN [ret |-> -Errno.ENOENT, calls |-> 1, names |-> <<name(fat[idx[1]])>>]
         ELSE [ret |-> 0, calls |-> Len(idx),
               names |-> [j \in 1..Len(idx) |-> name(fat[idx[j]])]])

----------------------------------------------------------------------------
(* truncate                                                                  *)

\* length / BLOCK_SIZE + (length % BLOCK_SIZE ? 1 : 0)
BlocksFor(length) ==
    length \div HCFS_BLOCK_SIZE + (IF length % HCFS_BLOCK_SIZE # 0 THEN 1 ELSE 0)

\* shrink, inner loop: while (aunits > 0 && n > 0); n is an unsigned int, a
\* negative n stands for the wrapped value
RECURSIVE shrinkUnits(_, _, _)
shrinkUnits(au, aunits, n) ==
    IF ~(aunits > 0 /\ NonZero(n)) THEN [au |-> au, aunits |-> aunits, n |-> n]
    ELSE IF au[aunits] # 0
    THEN shrinkUnits([au EXCEPT ![aunits] = 0], aunits - 1, n - 1)
    ELSE shrinkUnits(au, aunits - 1, n)

\* a variant of the loop body that leaves the entry as it is
keepEntry(e, r) == e

\* shrink, the body of the outer loop for the entry e; r: what the inner loop left
shrinkEntry(e, r) ==
    IF r.aunits = 0 /\ NonZero(r.n) THEN clear(e)
    ELSE [e EXCEPT !.allocationUnits = r.au,
                   !.recordCount = (r.aunits * HCFS_BLOCK_SIZE) \div HCFS_RECORD_SIZE]

\* shrink, outer loop: the directory in reverse, every entry of the name
\* (idx: the entries of the name, j: the one the loop is at)
RECURSIVE shrinkLoop(_, _, _, _)
shrinkLoop(fat, idx, j, n) ==
    IF j = 0 THEN [fat |-> fat, n |-> n]
    ELSE Bind(shrinkUnits(fat[idx[j]].allocationUnits, HCFS_MAX_ALLOCATION_UNITS, n), LAMBDA r :
         Bind([fat EXCEPT ![idx[j]] = shrinkEntry(fat[idx[j]], r)], LAMBDA fat2 :
         shrinkLoop(fat2, idx, j - 1, r.n)))

\* getFreeBlock: the first block still marked free, 0 when there is none
getFreeBlock(fb) == First(fb)

\* grow, inner loop over the allocation units of one entry;
\* returns the entry, the disk, the map, n and aunits
RECURSIVE fillUnits(_, _, _, _, _, _, _)
fillUnits(k, p, e, d, fb, n, aunits) ==
    IF ~(aunits < HCFS_MAX_ALLOCATION_UNITS /\ NonZero(n)) \/ d.x
    THEN [e |-> e, d |-> d, fb |-> fb, n |-> n, aunits |-> aunits]
    ELSE IF e.allocationUnits[aunits + 1] # 0 THEN fillUnits(k, p, e, d, fb, n, aunits + 1)
    ELSE Bind(getFreeBlock(fb), LAMBDA b :
         IF b = 0 THEN [e |-> e, d |-> d, fb |-> fb, n |-> n, aunits |-> aunits]
         ELSE Bind(writeBlock(k, p, d, b, BFill(HCFS_BLOCK_SIZE, HCFS_FREE_BYTE)), LAMBDA d2 :
              Bind([e EXCEPT !.allocationUnits[aunits + 1] = b], LAMBDA e2 :
              fillUnits(k, p, e2, d2, fb \ {b}, n - 1, aunits + 1))))

\* a variant of the new extent that is given no extent number
unnumberedExtent(k, e, fname, extents) == setName([clear(e) EXCEPT !.userCode = 0], fname)

\* the entry a growing truncate takes for a new extent
NewExtent(k, e, fname, extents) ==
    IF k = "cpm"
    THEN [setName([clear(e) EXCEPT !.userCode = 0], fname)
             EXCEPT !.exLo = extents % 32, !.exHi = extents \div 32]
    ELSE [setName([clear(e) EXCEPT !.userCode = 0], fname) EXCEPT !.exLo = extents]

\* grow: the body after the if/else, for the entry e at index i
\* g = [fat, d, fb, n, full, extents]
FillEntry(k, p, g, i, e, extents) ==
    Bind(fillUnits(k, p, e, g.d, g.fb, g.n, 0), LAMBDA r :
    Bind(IF r.d.x THEN r.e
         ELSE [r.e EXCEPT !.recordCount = (r.aunits * HCFS_BLOCK_SIZE) \div HCFS_RECORD_SIZE],
         LAMBDA e2 :
    [fat |-> [g.fat EXCEPT ![i] = e2], d |-> r.d, fb |-> r.fb, n |-> r.n,
     full |-> IF r.d.x THEN g.full ELSE full(e2), extents |-> extents]))

\* grow, outer loop: the next entry at or after index from that the loop does
\* not skip: an entry of the name while full is false, a free entry while
\* full is true; 0 when the loop ends
NextEntry(g, fname, from) ==
    First({i \in from..Len(g.fat) :
              IF g.full THEN free(g.fat[i])
              ELSE ~free(g.fat[i]) /\ NameEq(g.fat[i], fname)})

\* grow, the step of the outer loop at the entry i
growStep(k, p, fname, i, g) ==
    IF ~g.full
    THEN IF full(g.fat[i]) THEN [g EXCEPT !.extents = (@ + 1) % 256]
         ELSE FillEntry(k, p, g, i, g.fat[i], (g.extents + 1) % 256)
    ELSE FillEntry(k, p, g, i, NewExtent(k, g.fat[i], fname, g.extents),
                   (g.extents + 1) % 256)

\* grow, outer loop; extents is an unsigned char
RECURSIVE growLoop(_, _, _, _, _)
growLoop(k, p, fname, from, g) ==
    Bind(NextEntry(g, fname, from), LAMBDA i :
    IF i = 0 \/ g.d.x THEN g
    ELSE Bind(growStep(k, p, fname, i, g), LAMBDA g2 : growLoop(k, p, fname, i + 1, g2)))

\* truncate, the branch length < size
shrink(fat, d, fname, n) ==
    Bind(Entries(fat, fname), LAMBDA idx :
    Bind(shrinkLoop(fat, idx, Len(idx), n), LAMBDA r :
    [fat |-> r.fat, d |-> d, ret |-> IF NonZero(r.n) THEN -Errno.ENOENT ELSE 0]))

\* truncate, the branch length > size
grow(k, p, fat, d, fname, n) ==
    IF FreeMapThrows(k, p, fat)
    THEN [fat |-> fat, d |-> [d EXCEPT !.x = TRUE], ret |-> -Errno.EIO]
    ELSE Bind(growLoop(k, p, fname, 1,
                       [fat |-> fat, d |-> d, fb |-> FreeBlocks(k, p, fat), n |-> n,
                        full |-> FALSE, extents |-> 0]), LAMBDA g :
         [fat |-> g.fat, d |-> g.d,
          ret |-> IF g.d.x THEN -Errno.EIO
                  ELSE IF NonZero(g.n) THEN -Errno.ENOSPC ELSE 0])

\* truncate(path, length); d.x of the result tells that an exception left it
truncate(k, p, fat, d, path, length) ==
    IF ParentPath(path) # Root THEN [fat |-> fat, d |-> d, ret |-> -Errno.ENOENT]
    ELSE Bind(FileStat(fat, Filename(path)), LAMBDA st :
         IF st.entries = 0 THEN [fat |-> fat, d |-> d, ret |-> -Errno.ENOENT]
         ELSE IF length = st.size THEN [fat |-> fat, d |-> d, ret |-> 0]
         ELSE IF length < st.size
         THEN shrink(fat, d, Filename(path), st.blocks - BlocksFor(length))
         ELSE grow(k, p, fat, d, Filename(path), BlocksFor(length) - st.blocks))

----------------------------------------------------------------------------
(* read and write                                                            *)

\* totalSize of read and write: every entry of the name, whatever its place
RECURSIVE TotalSize(_, _, _)
TotalSize(fat, idx, j) ==
    IF j > Len(idx) THEN 0 ELSE size(fat[idx[j]]) + TotalSize(fat, idx, j + 1)

\* read, inner loop over the blocks of one entry
\* r = [out, blockPos, blockOffset, remaining, totalSize, ub, x]; ub: the memcpy
\* left the block buffer (the buffer is shorter than blockOffset + sz); x:
\* readBlock threw (ipos on a block that is not on the disk)
RECURSIVE readBlocks(_, _, _, _, _, _)
readBlocks(k, p, s, e, nblocks, r) ==
    IF ~(r.remaining > 0 /\ NonZero(r.totalSize) /\ r.blockPos < nblocks) \/ r.x THEN r
    ELSE IF ~BlockOk(k, p, e.allocationUnits[r.blockPos + 1]) THEN [r EXCEPT !.x = TRUE]
    ELSE Bind(readBlock(k, p, s, e.allocationUnits[r.blockPos + 1]), LAMBDA bb :
         Bind(UMin(UMin(r.remaining, BLen(bb) - r.blockOffset), r.totalSize), LAMBDA sz :
         Bind([out         |-> BCat(r.out, BSub(bb, r.blockOffset, sz)),
               blockPos    |-> r.blockPos + 1,
               blockOffset |-> 0,
               remaining   |-> r.remaining - sz,
               totalSize   |-> r.totalSize - sz,
               ub          |-> r.ub \/ BLen(bb) < r.blockOffset + sz,
               x           |-> FALSE], LAMBDA r2 :
         readBlocks(k, p, s, e, nblocks, r2))))

RECURSIVE readLoop(_, _, _, _, _, _, _)
readLoop(k, p, s, fat, idx, j, r) ==
    IF j > Len(idx) \/ r.x THEN r
    ELSE Bind(blocks(fat[idx[j]]), LAMBDA nblocks :
         IF r.blockPos > nblocks
         THEN readLoop(k, p, s, fat, idx, j + 1, [r EXCEPT !.blockPos = @ - nblocks])
         ELSE Bind([readBlocks(k, p, s, fat[idx[j]], nblocks, r) EXCEPT !.blockPos = 0],
                   LAMBDA r2 : readLoop(k, p, s, fat, idx, j + 1, r2)))

\* read(path, buf, size, offset)
read(k, p, fat, s, path, sz, offset) ==
    IF ParentPath(path) # Root
    THEN [ret |-> -Errno.ENOENT, out |-> <<>>, ub |-> FALSE, x |-> FALSE]
    ELSE Bind(Entries(fat, Filename(path)), LAMBDA idx :
         Bind(TotalSize(fat, idx, 1), LAMBDA totalSize :
         IF offset >= totalSize THEN [ret |-> 0, out |-> <<>>, ub |-> FALSE, x |-> FALSE]
         ELSE Bind(readLoop(k, p, s, fat, idx, 1,
                            [out         |-> <<>>,
                             blockPos    |-> offset \div HCFS_BLOCK_SIZE,
                             blockOffset |-> offset % HCFS_BLOCK_SIZE,
                             remaining   |-> sz,
                             totalSize   |-> totalSize,
                             ub          |-> FALSE,
                             x           |-> FALSE]), LAMBDA r :
              [ret |-> sz - r.remaining, out |-> r.out, ub |-> r.ub, x |-> r.x])))

\* write, inner loop over the blocks of one entry
\* w = [d, blockPos, blockOffset, remaining, totalSize, ub]
RECURSIVE writeBlocks(_, _, _, _, _, _)
writeBlocks(k, p, e, nblocks, buf, w) ==
    IF ~(w.remaining > 0 /\ NonZero(w.totalSize) /\ w.blockPos < nblocks) \/ w.d.x THEN w
    ELSE IF ~BlockOk(k, p, e.allocationUnits[w.blockPos + 1]) THEN [w EXCEPT !.d.x = TRUE]
    ELSE Bind(readBlock(k, p, w.d.s, e.allocationUnits[w.blockPos + 1]), LAMBDA bb :
         Bind(UMin(UMin(w.remaining, BLen(bb) - w.blockOffset), w.totalSize), LAMBDA sz :
         Bind([d           |-> writeBlock(k, p, w.d, e.allocationUnits[w.blockPos + 1],
                                          BPatch(bb, w.blockOffset,
                                                 BSub(buf, BLen(buf) - w.remaining, sz))),
               blockPos    |-> w.blockPos + 1,
               blockOffset |-> 0,
               remaining   |-> w.remaining - sz,
               totalSize   |-> w.totalSize - sz,
               ub          |-> w.ub \/ BLen(bb) < w.blockOffset + sz], LAMBDA w2 :
         writeBlocks(k, p, e, nblocks, buf, w2))))

RECURSIVE writeLoop(_, _, _, _, _, _, _)
writeLoop(k, p, fat, idx, buf, j, w) ==
    IF j > Len(idx) \/ w.d.x THEN w
    ELSE Bind(blocks(fat[idx[j]]), LAMBDA nblocks :
         IF w.blockPos > nblocks
         THEN writeLoop(k, p, fat, idx, buf, j + 1, [w EXCEPT !.blockPos = @ - nblocks])
         ELSE Bind([writeBlocks(k, p, fat[idx[j]], nblocks, buf, w) EXCEPT !.blockPos = 0],
                   LAMBDA w2 : writeLoop(k, p, fat, idx, buf, j + 1, w2)))

\* write, after the truncate (t: its result, or the state as it was)
writeWalk(k, p, t, fname, buf, offset, totalSize) ==
    Bind(writeLoop(k, p, t.fat, Entries(t.fat, fname), buf, 1,
                   [d           |-> t.d,
                    blockPos    |-> offset \div HCFS_BLOCK_SIZE,
                    blockOffset |-> offset % HCFS_BLOCK_SIZE,
                    remaining   |-> BLen(buf),
                    totalSize   |-> totalSize,
                    ub          |-> FALSE]), LAMBDA w :
         [fat |-> t.fat, d |-> w.d,
          ret |-> IF w.d.x THEN -Errno.EIO ELSE BLen(buf) - w.remaining,
          ub  |-> w.ub])

\* write(path, buf, size, offset)
write(k, p, fat, d, path, buf, offset) ==
    IF ParentPath(path) # Root
    THEN [fat |-> fat, d |-> d, ret |-> -Errno.ENOENT, ub |-> FALSE]
    ELSE Bind(TotalSize(fat, Entries(fat, Filename(path)), 1), LAMBDA total :
         IF offset + BLen(buf) > total
         THEN Bind(truncate(k, p, fat, d, path, offset + BLen(buf)), LAMBDA t :
              IF t.ret < 0 THEN [fat |-> t.fat, d |-> t.d, ret |-> t.ret, ub |-> FALSE]
              ELSE writeWalk(k, p, t, Filename(path), buf, offset,
                             BlocksFor(offset + BLen(buf)) * HCFS_BLOCK_SIZE))
         ELSE writeWalk(k, p, [fat |-> fat, d |-> d], Filename(path), buf, offset, total))

----------------------------------------------------------------------------
(* The image file and the Disk made from it                                  *)

\* Disk::save: the sectors that carry data, in the order of their positions
RECURSIVE SaveRange(_, _, _)
SaveRange(s, lo, hi) ==
    IF lo > hi THEN <<>>
    ELSE IF lo = hi THEN (IF DiskRead(s, lo) # <<>> THEN << <<lo, s[lo]>> >> ELSE <<>>)
    ELSE LET mid == (lo + hi) \div 2
         IN SaveRange(s, lo, mid) \o SaveRange(s, mid + 1, hi)

DiskSave(p, s) == SaveRange(s, 0, maxPos(p))

\* Disk::create: the sector map of a loaded image file
DiskCreate(f) ==
    [pos \in {f[i][1] : i \in 1..Len(f)} |->
        f[CHOOSE i \in 1..Len(f) : f[i][1] = pos][2]]

\* a factory-fresh image: every sector holds sectorSize bytes 0xE5
Formatted(p) == [pos \in 0..maxPos(p) |-> BFill(p.sectorSize, HCFS_FREE_BYTE)]

\* the geometry main() finds in the image: a 16 x 256 double-sided disk for
\* HCFS, a 9 x 512 double-sided disk for CPMFS
Geometry(k) ==
    IF k = "cpm" THEN DiskProperties(Tracks + DpbOff(k), 2, 9, 512)
    ELSE DiskProperties(Tracks, 2, 16, 256)

----------------------------------------------------------------------------
(* Inputs of the callbacks                                                   *)

PathA == <<SLASH, 65>>

Paths == {PathA}

\* n blocks of bytes, block i filled with the value i
RECURSIVE Pattern(_)
Pattern(n) == IF n = 0 THEN <<>> ELSE BCat(Pattern(n - 1), BFill(HCFS_BLOCK_SIZE, n))

SmallBuf == BFill(100, 1)

\* <<buf, offset>> of write; <<size, offset>> of read are the same ranges
WriteArgs ==
    { <<SmallBuf, 128>>, <<SmallBuf, 4090>>, <<Pattern(20), 0>> }

Lengths == {0, 100, 4000}

\* an image that already holds a one-record file A in block 2
OldEntry(e) ==
    [setName([clear(e) EXCEPT !.userCode = 0], <<65>>)
        EXCEPT !.recordCount = 1, !.allocationUnits[1] = 2]

Populated(k, p) ==
    LET d0   == DiskState(Formatted(p), FALSE, FALSE)
        fat0 == loadFAT(k, p, d0.s)
        fat1 == [fat0 EXCEPT ![1] = OldEntry(fat0[1])]
        d1   == writeBlock(k, p, d0, 2,
                           BCat(BFill(HCFS_RECORD_SIZE, 66),
                                BFill(HCFS_BLOCK_SIZE - HCFS_RECORD_SIZE, 26)))
    IN writeFat(k, p, d1, FatBytes(fat1, 1, Len(fat1)), 0).s

----------------------------------------------------------------------------
(* The state machine                                                         *)

NoOp ==
    [op |-> "none", path |-> <<>>, len |-> 0, off |-> 0, buf |-> <<>>, ret |-> 0,
     out |-> <<>>, calls |-> 0, blocks |-> {}, existed |-> FALSE, ub |-> FALSE,
     x |-> FALSE, core |-> 0]

ReadOnlyOps == {"getattr", "open", "release", "read", "statfs", "readdir"}

\* A read-only callback changes nothing but the record of its result, so a
\* run goes on after it exactly as it does without it: its result is kept as
\* an observation and the run is followed no further from there.
Quiet == last.op \notin ReadOnlyOps

\* a variant of the adaptor that hands on whatever ret holds
passOn(x, ret) == ret

\* the adaptor: "int ret = -EIO; try { ret = core(...); } catch (...) {}
\* return ret": an exception of the core becomes -EIO
Adapt(x, ret) == IF x THEN -Errno.EIO ELSE ret

\* the blocks the entries of a name refer to
FileBlocks(fat, fname) ==
    {fat[i].allocationUnits[j] :
        i \in {i2 \in 1..Len(fat) : ~free(fat[i2]) /\ NameEq(fat[i2], fname)},
        j \in 1..HCFS_MAX_ALLOCATION_UNITS} \ {0}

\* no thread, no image object and no geometry call is looked at on its own
NoThreads == pc = <<>> /\ lock = <<>> /\ snapshot = <<>>

NoImage == img = <<>>

NoProbe == probe = <<>>

\* the image main() is given: factory-fresh, or holding the one-record file
Init ==
    /\ \E k \in {"hc", "cpm"} :
         \E p \in {Geometry(k)} :
           \E image \in {Formatted(p), Populated(k, p)} :
             /\ kind = k
             /\ props = p
             /\ file = DiskSave(p, image)
    /\ phase = "unmounted"
    /\ sectors = <<>>
    /\ modified = FALSE
    /\ fatEntries = <<>>
    /\ dirty = FALSE
    /\ remounted = FALSE
    /\ last = NoOp
    /\ life = "none"
    /\ ops = 0
    /\ mounts = 0
    /\ saved = FALSE
    /\ NoThreads /\ NoImage /\ NoProbe

\* main(): Disk::create, then the constructor of the filesystem (loadFAT)
Mount ==
    /\ phase = "unmounted"
    /\ mounts < MaxMounts
    /\ MountOk(kind, props)
    /\ phase' = "mounted"
    /\ sectors' = DiskCreate(file)
    /\ modified' = FALSE
    /\ fatEntries' = loadFAT(kind, props, sectors')
    /\ dirty' = FALSE
    /\ remounted' = TRUE
    /\ mounts' = mounts + 1
    /\ saved' = FALSE
    /\ UNCHANGED <<kind, props, file, last, life, ops>>
    /\ UNCHANGED <<pc, lock, snapshot, img, probe>>

\* main() after fuse_main returns: fs.reset() runs saveFAT, then the image is
\* saved if it is modified; an exception leaving the destructor ends the
\* process before the save
Unmount ==
    /\ phase = "mounted"
    /\ Quiet
    /\ \E d \in {saveFAT(kind, props, DiskState(sectors, modified, FALSE), fatEntries)} :
          /\ file' = IF ~d.x /\ d.m THEN DiskSave(props, d.s) ELSE file
          /\ saved' = (~d.x /\ d.m)
          \* the history of the file goes on only if the image keeps the directory
          /\ life' = IF life # "none" /\ loadFAT(kind, props, DiskCreate(file')) = fatEntries
                     THEN life ELSE "none"
    /\ phase' = "unmounted"
    /\ sectors' = <<>>
    /\ modified' = FALSE
    /\ fatEntries' = <<>>
    /\ remounted' = FALSE
    /\ UNCHANGED <<kind, props, dirty, last, ops, mounts>>
    /\ UNCHANGED <<pc, lock, snapshot, img, probe>>

\* what a read-only callback leaves alone
ReadOnly ==
    /\ phase = "mounted"
    /\ Quiet
    /\ remounted' = FALSE
    /\ UNCHANGED <<kind, props, file, phase, sectors, modified, fatEntries, dirty,
                   life, ops, mounts, saved>>
    /\ UNCHANGED <<pc, lock, snapshot, img, probe>>

\* what every mutating callback does besides its own work
Mutating ==
    /\ phase = "mounted"
    /\ Quiet
    /\ ops < MaxOps
    /\ ops' = ops + 1
    /\ remounted' = FALSE
    /\ UNCHANGED <<kind, props, file, phase, mounts, saved>>
    /\ UNCHANGED <<pc, lock, snapshot, img, probe>>

\* Filesystem::getattr (shared lock)
Getattr(path) ==
    /\ ReadOnly
    /\ \E r \in {getattr(kind, fatEntries, path)} :
          last' = [NoOp EXCEPT !.op = "getattr", !.path = path, !.ret = Adapt(FALSE, r.ret),
                               !.core = r.ret, !.len = r.st_size]

\* Filesystem::open and Filesystem::release (shared lock)
Open(path) ==
    /\ ReadOnly
    /\ last' = [NoOp EXCEPT !.op = "open", !.path = path,
                            !.ret = Adapt(FALSE, open(kind, fatEntries, path)),
                            !.core = open(kind, fatEntries, path)]

Release(path) ==
    /\ ReadOnly
    /\ last' = [NoOp EXCEPT !.op = "release", !.path = path,
                            !.ret = Adapt(FALSE, open(kind, fatEntries, path)),
                            !.core = open(kind, fatEntries, path)]

\* Filesystem::read (shared lock)
Read(path, sz, offset) ==
    /\ ReadOnly
    /\ \E r \in {read(kind, props, fatEntries, sectors, path, sz, offset)} :
          last' = [NoOp EXCEPT !.op = "read", !.path = path, !.len = sz, !.off = offset,
                               !.ret = Adapt(r.x, r.ret), !.out = r.out, !.ub = r.ub,
                               !.x = r.x, !.core = r.ret]

\* Filesystem::statfs (shared lock)
Statfs ==
    /\ ReadOnly
    /\ \E r \in {statfs(kind, props, fatEntries, Root)} :
          last' = [NoOp EXCEPT !.op = "statfs", !.path = Root, !.ret = Adapt(FALSE, r.ret),
                               !.core = r.ret,
                               !.len = r.f_bfree, !.off = r.f_ffree, !.calls = r.f_files]

\* Filesystem::readdir (shared lock)
Readdir(cbFull) ==
    /\ ReadOnly
    /\ \E r \in {readdir(kind, fatEntries, Root, cbFull)} :
          last' = [NoOp EXCEPT !.op = "readdir", !.path = Root, !.ret = Adapt(FALSE, r.ret),
                               !.core = r.ret,
                               !.calls = r.calls, !.out = r.names]

\* Filesystem::create (unique lock)
Create(path) ==
    /\ Mutating
    /\ \E r \in {create(kind, fatEntries, path)}, old \in {Entries(fatEntries, Filename(path))} :
          /\ fatEntries' = r.fat
          /\ last' = [NoOp EXCEPT !.op = "create", !.path = path, !.ret = Adapt(FALSE, r.ret),
                                  !.core = r.ret,
                                  !.existed = (find(kind, fatEntries, Filename(path)) # 0)]
          /\ dirty' = (dirty \/ (r.ret >= 0 /\ r.fat # fatEntries))
          /\ life' = IF r.ret = 0 /\ old = <<>> THEN "created" ELSE "none"
    /\ UNCHANGED <<sectors, modified>>

\* Filesystem::unlink (unique lock)
Unlink(path) ==
    /\ Mutating
    /\ \E r \in {unlink(kind, fatEntries, path)} :
          /\ fatEntries' = r.fat
          /\ last' = [NoOp EXCEPT !.op = "unlink", !.path = path, !.ret = Adapt(FALSE, r.ret),
                                  !.core = r.ret,
                                  !.blocks = FileBlocks(fatEntries, Filename(path))]
          /\ dirty' = (dirty \/ (r.ret >= 0 /\ r.fat # fatEntries))
          /\ life' = IF r.ret = 0 /\ life = "written" THEN "unlinked" ELSE "none"
    /\ UNCHANGED <<sectors, modified>>

\* Filesystem::truncate (unique lock)
Truncate(path, length) ==
    /\ Mutating
    /\ \E r \in {truncate(kind, props, fatEntries, DiskState(sectors, modified, FALSE), path, length)} :
          /\ fatEntries' = r.fat
          /\ sectors' = r.d.s
          /\ modified' = r.d.m
          /\ last' = [NoOp EXCEPT !.op = "truncate", !.path = path, !.len = length,
                                  !.ret = Adapt(r.d.x, r.ret), !.x = r.d.x, !.core = r.ret,
                                  !.blocks = FileBlocks(fatEntries, Filename(path))]
          /\ dirty' = (dirty \/ (~r.d.x /\ r.ret >= 0
                                 /\ (r.fat # fatEntries \/ r.d.s # sectors)))
          /\ life' = IF life = "written" /\ length = 0 /\ ~r.d.x /\ r.ret = 0
                     THEN "emptied" ELSE "none"

\* Filesystem::write (unique lock)
Write(path, buf, offset) ==
    /\ Mutating
    /\ \E r \in {write(kind, props, fatEntries, DiskState(sectors, modified, FALSE), path, buf, offset)} :
          /\ fatEntries' = r.fat
          /\ sectors' = r.d.s
          /\ modified' = r.d.m
          /\ last' = [NoOp EXCEPT !.op = "write", !.path = path, !.buf = buf, !.off = offset,
                                  !.len = BLen(buf), !.ret = Adapt(r.d.x, r.ret), !.ub = r.ub,
                                  !.x = r.d.x, !.core = r.ret]
          /\ dirty' = (dirty \/ (~r.d.x /\ r.ret >= 0
                                 /\ (r.fat # fatEntries \/ r.d.s # sectors)))
          /\ life' = IF life = "created" /\ ~r.d.x /\ r.ret = BLen(buf) THEN "written" ELSE "none"

Next ==
    \/ Mount
    \/ Unmount
    \/ \E path \in Paths : Getattr(path)
    \/ \E path \in Paths : Open(path)
    \/ \E path \in Paths : Release(path)
    \/ \E path \in Paths, a \in WriteArgs : Read(path, BLen(a[1]), a[2])
    \/ Statfs
    \/ \E cbFull \in BOOLEAN : Readdir(cbFull)
    \/ \E path \in Paths : Create(path)
    \/ \E path \in Paths : Unlink(path)
    \/ \E path \in Paths, length \in Lengths : Truncate(path, length)
    \/ \E path \in Paths, a \in WriteArgs : Write(path, a[1], a[2])

Spec == Init /\ [][Next]_vars

----------------------------------------------------------------------------
(* Images written by other tools                                            *)

\* file A of Populated, its block 2 without its first sector (an IMD image
\* records such a sector as "data unavailable"; Disk::read gives it empty)
Sparse(k, p) ==
    [pos \in (DOMAIN Populated(k, p)) \ {ipos(k, p, BlockStart(k, p, 2))} |->
        Populated(k, p)[pos]]

\* a directory whose entries 1..Len(es) are es, on a formatted disk
WithEntries(k, p, es) ==
    LET d0   == DiskState(Formatted(p), FALSE, FALSE)
        fat0 == loadFAT(k, p, d0.s)
        fat1 == [i \in 1..Len(fat0) |-> IF i <= Len(es) THEN es[i] ELSE fat0[i]]
    IN writeFat(k, p, d0, FatBytes(fat1, 1, Len(fat1)), 0).s

\* file A with an allocation unit that is not on the disk
Corrupt(k, p) ==
    WithEntries(k, p, << [OldEntry(<<>>) EXCEPT
                             !.allocationUnits[1] = DataBlocks(k, p) + 1] >>)

\* file A with its extents 0 and 32 (ex_lo = 0, ex_hi = 1) in the directory
Far(k, p) ==
    WithEntries(k, p, << OldEntry(<<>>),
                         [OldEntry(<<>>) EXCEPT !.exHi = 1,
                                                    !.allocationUnits[1] = 3] >>)

InitForeign ==
    /\ \E k \in {"hc", "cpm"} :
         \E p \in {Geometry(k)} :
           \E image \in {Sparse(k, p), Corrupt(k, p), Far(k, p)} :
             /\ kind = k
             /\ props = p
             /\ file = DiskSave(p, image)
    /\ phase = "unmounted"
    /\ sectors = <<>>
    /\ modified = FALSE
    /\ fatEntries = <<>>
    /\ dirty = FALSE
    /\ remounted = FALSE
    /\ last = NoOp
    /\ life = "none"
    /\ ops = 0
    /\ mounts = 0
    /\ saved = FALSE
    /\ NoThreads /\ NoImage /\ NoProbe

SpecForeign == InitForeign /\ [][Next]_vars

\* Populated without the last sector of directory block 1 (such a sector is
\* "data unavailable" in an IMD image, or its track is absent in a DSK image)
PartialDir(k, p) ==
    [pos \in (DOMAIN Populated(k, p))
              \ {ipos(k, p, BlockStart(k, p, 1) + SectorsPerBlock(p) - 1)} |->
        Populated(k, p)[pos]]

InitPartial ==
    /\ \E k \in {"hc", "cpm"} :
         \E p \in {Geometry(k)} :
             /\ kind = k
             /\ props = p
             /\ file = DiskSave(p, PartialDir(k, p))
    /\ phase = "unmounted"
    /\ sectors = <<>>
    /\ modified = FALSE
    /\ fatEntries = <<>>
    /\ dirty = FALSE
    /\ remounted = FALSE
    /\ last = NoOp
    /\ life = "none"
    /\ ops = 0
    /\ mounts = 0
    /\ saved = FALSE
    /\ NoThreads /\ NoImage /\ NoProbe

SpecPartial == InitPartial /\ [][Next]_vars

\* the runs that start from a factory-fresh image
InitEmpty == Init /\ file = DiskSave(props, Formatted(props))

SpecEmpty == InitEmpty /\ [][Next]_vars

----------------------------------------------------------------------------
(* The adaptor under threads: every callback takes Filesystem::mutex_        *)

\* threads of the FUSE loop that run callbacks at the same time
NThreads == 2

Threads == 1..NThreads

MutatingOps == {"create", "unlink", "truncate", "write"}

\* a variant of the adaptor that takes the shared lock in every callback
sharedFor(op) == "shared"

\* the lock a callback of the adaptor takes: std::unique_lock in __unlink,
\* __truncate, __write and __create, std::shared_lock in the others
LockFor(op) == IF op \in MutatingOps THEN "unique" ELSE "shared"

\* std::shared_mutex: a unique lock needs every other thread out, a shared
\* lock needs no thread holding it uniquely
CanLock(mode) ==
    IF mode = "unique" THEN \A u \in Threads : lock[u] = "none"
    ELSE \A u \in Threads : lock[u] # "unique"

\* the callbacks the threads run
LockCalls ==
    { [NoOp EXCEPT !.op = "getattr", !.path = PathA],
      [NoOp EXCEPT !.op = "open", !.path = PathA],
      [NoOp EXCEPT !.op = "release", !.path = PathA],
      [NoOp EXCEPT !.op = "read", !.path = PathA, !.len = BLen(SmallBuf), !.off = 128],
      [NoOp EXCEPT !.op = "statfs", !.path = Root],
      [NoOp EXCEPT !.op = "readdir", !.path = Root],
      [NoOp EXCEPT !.op = "create", !.path = PathA],
      [NoOp EXCEPT !.op = "unlink", !.path = PathA],
      [NoOp EXCEPT !.op = "truncate", !.path = PathA, !.len = 0],
      [NoOp EXCEPT !.op = "write", !.path = PathA, !.buf = SmallBuf, !.off = 128,
                   !.len = BLen(SmallBuf)] }

\* directory and image as one value
FsState(fat, s, m) == [fat |-> fat, s |-> s, m |-> m]

FsNow == FsState(fatEntries, sectors, modified)

\* a thread between two callbacks
Idle == [at |-> "idle", c |-> NoOp, ret |-> <<>>, loc |-> <<>>]

\* what a callback under the shared lock hands back: its return value and
\* what it wrote to the buffers of the caller
Result(k, p, f, c) ==
    IF c.op = "getattr"
    THEN Bind(getattr(k, f.fat, c.path), LAMBDA r : <<r.ret, <<r.dir, r.st_size>> >>)
    ELSE IF c.op \in {"open", "release"} THEN <<open(k, f.fat, c.path), <<>> >>
    ELSE IF c.op = "read"
    THEN Bind(read(k, p, f.fat, f.s, c.path, c.len, c.off), LAMBDA r : <<r.ret, r.out>>)
    ELSE IF c.op = "statfs"
    THEN Bind(statfs(k, p, f.fat, c.path), LAMBDA r : <<r.ret, <<r.f_bfree, r.f_ffree>> >>)
    ELSE Bind(readdir(k, f.fat, c.path, FALSE), LAMBDA r : <<r.ret, r.names>>)

\* a part of a callback: the state it leaves, its return value, whether the
\* callback ends here, and the locals the next part goes on with
Part(f, ret, done, loc) == [f |-> f, ret |-> ret, done |-> done, loc |-> loc]

\* create, up to "entry.userCode_ = 0": the entry is taken, its name is blank
createTake(k, f, c) ==
    IF ParentPath(c.path) # Root THEN Part(f, -Errno.ENOENT, TRUE, <<>>)
    ELSE IF find(k, f.fat, c.path) # 0 THEN Part(f, -Errno.EEXIST, TRUE, <<>>)
    ELSE Bind(First({i \in 1..Len(f.fat) : free(f.fat[i])}), LAMBDA i :
         IF i = 0 THEN Part(f, -Errno.ENOSPC, TRUE, <<>>)
         ELSE Part([f EXCEPT !.fat[i] = [clear(f.fat[i]) EXCEPT !.userCode = 0]],
                   0, FALSE, <<i>>))

\* create, "entry.setName(...); return 0"
createName(f, c, loc) ==
    Part([f EXCEPT !.fat[loc[1]] = setName(f.fat[loc[1]], Filename(c.path))], 0, TRUE, <<>>)

\* write, up to and including its call of truncate
writeExtend(k, p, f, c) ==
    IF ParentPath(c.path) # Root THEN Part(f, -Errno.ENOENT, TRUE, <<>>)
    ELSE Bind(TotalSize(f.fat, Entries(f.fat, Filename(c.path)), 1), LAMBDA total :
         IF c.off + BLen(c.buf) > total
         THEN Bind(truncate(k, p, f.fat, DiskState(f.s, f.m, FALSE), c.path,
                            c.off + BLen(c.buf)), LAMBDA t :
              IF t.d.x THEN Part(f, -Errno.EIO, TRUE, <<>>)
              ELSE IF t.ret < 0 THEN Part(FsState(t.fat, t.d.s, t.d.m), t.ret, TRUE, <<>>)
              ELSE Part(FsState(t.fat, t.d.s, t.d.m), 0, FALSE,
                        <<BlocksFor(c.off + BLen(c.buf)) * HCFS_BLOCK_SIZE>>))
         ELSE Part(f, 0, FALSE, <<total>>))

\* write, the walk over the blocks
writeData(k, p, f, c, loc) ==
    Bind(writeWalk(k, p, [fat |-> f.fat, d |-> DiskState(f.s, f.m, FALSE)],
                   Filename(c.path), c.buf, c.off, loc[1]), LAMBDA w :
         IF w.d.x THEN Part(f, -Errno.EIO, TRUE, <<>>)
         ELSE Part(FsState(w.fat, w.d.s, w.d.m), w.ret, TRUE, <<>>))

\* the first part of a callback under the unique lock; unlink and truncate
\* change nothing before they have looked the file up
FirstPart(k, p, f, c) ==
    IF c.op = "create" THEN createTake(k, f, c)
    ELSE IF c.op = "write" THEN writeExtend(k, p, f, c)
    ELSE IF ParentPath(c.path) # Root THEN Part(f, -Errno.ENOENT, TRUE, <<>>)
    ELSE Part(f, 0, FALSE, <<>>)

\* the rest of it
SecondPart(k, p, f, c, loc) ==
    IF c.op = "create" THEN createName(f, c, loc)
    ELSE IF c.op = "write" THEN writeData(k, p, f, c, loc)
    ELSE IF c.op = "unlink"
    THEN Bind(unlink(k, f.fat, c.path), LAMBDA r : Part([f EXCEPT !.fat = r.fat], r.ret, TRUE, <<>>))
    ELSE Bind(truncate(k, p, f.fat, DiskState(f.s, f.m, FALSE), c.path, c.len), LAMBDA r :
         IF r.d.x THEN Part(f, -Errno.EIO, TRUE, <<>>)
         ELSE Part(FsState(r.fat, r.d.s, r.d.m), r.ret, TRUE, <<>>))

\* a mounted volume on a factory-fresh image, every thread between callbacks
InitLock ==
    /\ \E k \in {"hc", "cpm"} :
         \E p \in {Geometry(k)} :
           /\ kind = k
           /\ props = p
           /\ file = DiskSave(p, Formatted(p))
           /\ sectors = Formatted(p)
           /\ fatEntries = loadFAT(k, p, Formatted(p))
    /\ phase = "mounted"
    /\ modified = FALSE
    /\ dirty = FALSE
    /\ remounted = TRUE
    /\ last = NoOp
    /\ life = "none"
    /\ ops = 0
    /\ mounts = 1
    /\ saved = FALSE
    /\ pc = [t \in Threads |-> Idle]
    /\ lock = [t \in Threads |-> "none"]
    /\ snapshot = FsNow
    /\ NoImage /\ NoProbe

\* what no step of a thread changes
Threaded ==
    UNCHANGED <<kind, props, file, phase, dirty, remounted, last, life, mounts, saved,
                img, probe>>

\* the lock guard of a callback is constructed: the thread has the lock
Acquire(t, c) ==
    /\ pc[t].at = "idle"
    /\ c.op \in MutatingOps => ops < MaxOps
    /\ CanLock(LockFor(c.op))
    /\ lock' = [lock EXCEPT ![t] = LockFor(c.op)]
    /\ pc' = [pc EXCEPT ![t] = [Idle EXCEPT !.at = "locked", !.c = c]]
    /\ ops' = IF c.op \in MutatingOps THEN ops + 1 ELSE ops
    /\ UNCHANGED <<sectors, modified, fatEntries, snapshot>>
    /\ Threaded

\* the whole of getattr, open, release, read, statfs or readdir
Observe(t) ==
    /\ pc[t].at = "locked"
    /\ pc[t].c.op \in ReadOnlyOps
    /\ pc' = [pc EXCEPT ![t].at = "done", ![t].ret = Result(kind, props, FsNow, pc[t].c)]
    /\ UNCHANGED <<sectors, modified, fatEntries, snapshot, lock, ops>>
    /\ Threaded

\* the first part of create, unlink, truncate or write
Begin(t) ==
    /\ pc[t].at = "locked"
    /\ pc[t].c.op \in MutatingOps
    /\ \E r \in {FirstPart(kind, props, FsNow, pc[t].c)} :
          /\ fatEntries' = r.f.fat
          /\ sectors' = r.f.s
          /\ modified' = r.f.m
          /\ pc' = [pc EXCEPT ![t].at = IF r.done THEN "done" ELSE "half",
                              ![t].ret = <<r.ret, <<>> >>, ![t].loc = r.loc]
          /\ snapshot' = IF r.done THEN FsState(r.f.fat, r.f.s, r.f.m) ELSE snapshot
    /\ UNCHANGED <<lock, ops>>
    /\ Threaded

\* the rest of it: the callback is through, a whole mutation has happened
Finish(t) ==
    /\ pc[t].at = "half"
    /\ \E r \in {SecondPart(kind, props, FsNow, pc[t].c, pc[t].loc)} :
          /\ fatEntries' = r.f.fat
          /\ sectors' = r.f.s
          /\ modified' = r.f.m
          /\ pc' = [pc EXCEPT ![t].at = "done", ![t].ret = <<r.ret, <<>> >>, ![t].loc = <<>>]
          /\ snapshot' = FsState(r.f.fat, r.f.s, r.f.m)
    /\ UNCHANGED <<lock, ops>>
    /\ Threaded

\* the lock guard goes out of scope and the callback returns
Unlock(t) ==
    /\ pc[t].at = "done"
    /\ lock' = [lock EXCEPT ![t] = "none"]
    /\ pc' = [pc EXCEPT ![t] = Idle]
    /\ UNCHANGED <<sectors, modified, fatEntries, snapshot, ops>>
    /\ Threaded

NextLock ==
    \/ \E t \in Threads, c \in LockCalls : Acquire(t, c)
    \/ \E t \in Threads : Observe(t)
    \/ \E t \in Threads : Begin(t)
    \/ \E t \in Threads : Finish(t)
    \/ \E t \in Threads : Unlock(t)

SpecLock == InitLock /\ [][NextLock]_vars

\* the callbacks with a thread that waits for the lock: a mounted HC volume
\* on a factory-fresh image or on the image whose file has a block that is
\* not on the disk, on which the core operations throw
InitWait ==
    /\ \E k \in {"hc"} :
         \E p \in {Geometry(k)} :
           \E image \in {Formatted(p), Corrupt(k, p)} :
             /\ kind = k
             /\ props = p
             /\ file = DiskSave(p, image)
             /\ sectors = image
             /\ fatEntries = loadFAT(k, p, image)
    /\ phase = "mounted"
    /\ modified = FALSE
    /\ dirty = FALSE
    /\ remounted = TRUE
    /\ last = NoOp
    /\ life = "none"
    /\ ops = 0
    /\ mounts = 1
    /\ saved = FALSE
    /\ pc = [t \in Threads |-> Idle]
    /\ lock = [t \in Threads |-> "none"]
    /\ snapshot = FsNow
    /\ NoImage /\ NoProbe

\* a variant of the guard that keeps the lock when the callback caught an
\* exception
keptOnThrow(mode, ret) == IF ret = -Errno.EIO THEN mode ELSE "none"

\* the lock of a thread after the try block of its callback: the guard is
\* destroyed at the end of the block and when an exception leaves it
AfterGuard(mode, ret) == "none"

\* FUSE calls a callback on the thread t
Call(t, c) ==
    /\ pc[t].at = "idle"
    /\ c.op \in MutatingOps => ops < MaxOps
    /\ pc' = [pc EXCEPT ![t] = [Idle EXCEPT !.at = "waiting", !.c = c]]
    /\ ops' = IF c.op \in MutatingOps THEN ops + 1 ELSE ops
    /\ UNCHANGED <<sectors, modified, fatEntries, snapshot, lock>>
    /\ Threaded

\* the constructor of the lock guard returns: the thread has the lock
Enter(t) ==
    /\ pc[t].at = "waiting"
    /\ CanLock(LockFor(pc[t].c.op))
    /\ lock' = [lock EXCEPT ![t] = LockFor(pc[t].c.op)]
    /\ pc' = [pc EXCEPT ![t].at = "locked"]
    /\ UNCHANGED <<sectors, modified, fatEntries, snapshot, ops>>
    /\ Threaded

\* the try block is left and the callback returns
Return(t) ==
    /\ pc[t].at = "done"
    /\ lock' = [lock EXCEPT ![t] = AfterGuard(lock[t], pc[t].ret[1])]
    /\ pc' = [pc EXCEPT ![t] = Idle]
    /\ UNCHANGED <<sectors, modified, fatEntries, snapshot, ops>>
    /\ Threaded

NextWait ==
    \/ \E t \in Threads, c \in LockCalls : Call(t, c)
    \/ \E t \in Threads : Enter(t)
    \/ \E t \in Threads : Observe(t)
    \/ \E t \in Threads : Begin(t)
    \/ \E t \in Threads : Finish(t)
    \/ \E t \in Threads : Return(t)

\* the next step of a thread that has the lock
Proceed(t) == Observe(t) \/ Begin(t) \/ Finish(t) \/ Return(t)

\* a thread that has the lock takes a step; the first disjunct is a case of
\* the second and names one value of pc'
Runs(t) ==
    /\ pc[t].at \in {"locked", "half", "done"}
    /\ (pc' = [pc EXCEPT ![t] = Idle] \/ pc'[t] # pc[t])

\* the steps of NextWait in which a thread that has the lock goes on are the
\* steps of its callback
RunsIsProceed == [][\A t \in Threads : Runs(t) => Proceed(t)]_vars

\* a thread that has the lock is scheduled and goes on; a thread that waits
\* for the lock gets it when the lock is free again and again
FairWait ==
    \A t \in Threads : WF_pc(Runs(t)) /\ SF_vars(Enter(t))

SpecWait == InitWait /\ [][NextWait]_vars /\ FairWait

----------------------------------------------------------------------------
(* Image files: the bytes of a file are a plain sequence, the payload of a  *)
(* sector is a byte vector                                                  *)

Zeros(n) == [i \in 1..n |-> 0]

\* std::ifstream over the bytes f: pos = tellg(), ok = !fail()
Stream(f, pos, ok) == [f |-> f, pos |-> pos, ok |-> ok]

\* in.read(buf, n) into a zero-initialised buffer: <<the buffer, the stream
\* after>>; a short read keeps the bytes there are and sets failbit, and a
\* failed stream reads nothing
StRead(st, n) ==
    IF ~st.ok THEN <<Zeros(n), st>>
    ELSE IF st.pos + n <= Len(st.f)
    THEN <<SubSeq(st.f, st.pos + 1, st.pos + n), [st EXCEPT !.pos = @ + n]>>
    ELSE IF st.pos >= Len(st.f) THEN <<Zeros(n), [st EXCEPT !.ok = FALSE]>>
    ELSE <<SubSeq(st.f, st.pos + 1, Len(st.f)) \o Zeros(n - (Len(st.f) - st.pos)),
           [st EXCEPT !.ok = FALSE]>>

\* in.seekg(pos): nothing on a failed stream
StSeek(st, pos) == IF st.ok THEN [st EXCEPT !.pos = pos] ELSE st

\* the bytes s as a byte vector (halving keeps the recursion shallow)
RECURSIVE BOf(_)
BOf(s) ==
    IF Len(s) = 0 THEN <<>>
    ELSE IF Len(s) = 1 THEN << <<1, s[1]>> >>
    ELSE BCat(BOf(SubSeq(s, 1, Len(s) \div 2)), BOf(SubSeq(s, Len(s) \div 2 + 1, Len(s))))

RECURSIVE Concat(_)
Concat(ss) == IF ss = <<>> THEN <<>> ELSE ss[1] \o Concat(Tail(ss))

\* a constructor or a write that threw
Threw == [x |-> TRUE]

\* sectors_: position -> <<track index, sector index>> of the Sector it points
\* to; at = <<track index, sector index>> -> position, later assignments win
SectorMap(at) ==
    [pos \in {at[q] : q \in DOMAIN at} |->
        CHOOSE q \in DOMAIN at :
            /\ at[q] = pos
            /\ \A r \in DOMAIN at :
                  at[r] = pos => (r[1] < q[1] \/ (r[1] = q[1] /\ r[2] <= q[2]))]

\* every <<track index, sector index>> of a track list
Places(trks) ==
    UNION {{<<ti, si>> : si \in 1..Len(trks[ti].sectors)} : ti \in 1..Len(trks)}

\* Disk::read of DSK and IMD: the sector sectors_ points to, or the empty one
ImageRead(d, pos) ==
    IF pos \in DOMAIN d.sectors
    THEN d.tracks[d.sectors[pos][1]].sectors[d.sectors[pos][2]]
    ELSE <<>>

----------------------------------------------------------------------------
(* DSK (dsk.cpp)                                                            *)

DATA_ALIGNMENT == 256
SECTOR_SIZE_UNIT == 256

\* "MV - CPCEMU Disk-File\r\nDisk-Info\r\n"
stag == <<77, 86, 32, 45, 32, 67, 80, 67, 69, 77, 85, 32, 68, 105, 115, 107, 45,
          70, 105, 108, 101, 13, 10, 68, 105, 115, 107, 45, 73, 110, 102, 111, 13, 10>>

\* "EXTENDED CPC DSK File\r\nDisk-Info\r\n"
etag == <<69, 88, 84, 69, 78, 68, 69, 68, 32, 67, 80, 67, 32, 68, 83, 75, 32,
          70, 105, 108, 101, 13, 10, 68, 105, 115, 107, 45, 73, 110, 102, 111, 13, 10>>

\* "Track-Info\r\n"
trackTag == <<84, 114, 97, 99, 107, 45, 73, 110, 102, 111, 13, 10>>

\* the sector data of one track block: info.size_ * 256 bytes each, or
\* info.dataLength_ bytes each in the extended layout
RECURSIVE dskData(_, _, _, _, _)
dskData(st, infos, j, ext, acc) ==
    IF j > Len(infos) THEN [st |-> st, sectors |-> acc]
    ELSE Bind(StRead(st, IF ext THEN infos[j].dataLength
                         ELSE infos[j].size * SECTOR_SIZE_UNIT), LAMBDA r :
         dskData(r[2], infos, j + 1, ext, Append(acc, BOf(r[1]))))

\* one track block at st: the tag, the track header, sectorCount_ sector
\* infos, then the data at trackPos + DATA_ALIGNMENT
dskTrack(st, ext) ==
    Bind(StRead(st, Len(trackTag)), LAMBDA tag :
    IF ~tag[2].ok \/ tag[1] # trackTag THEN Threw
    ELSE Bind(StRead(tag[2], 12), LAMBDA h :
         Bind(h[1], LAMBDA hb :
         Bind(StRead(h[2], IF ext \/ hb[10] = 0 THEN 8 * hb[10] ELSE 8 * hb[10] - 2),
              LAMBDA ir :
         Bind(ir[1] \o <<0, 0>>, LAMBDA ib :
         Bind([j \in 1..hb[10] |->
                 [track      |-> ib[8 * j - 7],
                  side       |-> ib[8 * j - 6],
                  id         |-> ib[8 * j - 5],
                  size       |-> ib[8 * j - 4],
                  sreg1      |-> ib[8 * j - 3],
                  sreg2      |-> ib[8 * j - 2],
                  dataLength |-> IF ext THEN ib[8 * j - 1] + 256 * ib[8 * j] ELSE 0]],
              LAMBDA infos :
         Bind(dskData(StSeek(IF ext \/ hb[10] = 0 THEN ir[2]
                             ELSE StSeek(ir[2], ir[2].pos + 2),
                             st.pos + DATA_ALIGNMENT),
                      infos, 1, ext, <<>>), LAMBDA dr :
              [x     |-> FALSE,
               st    |-> dr.st,
               track |-> [track        |-> hb[5],
                          side         |-> hb[6],
                          sectorSize   |-> hb[9],
                          sectorCount  |-> hb[10],
                          gap          |-> hb[11],
                          filler       |-> hb[12],
                          sectorInfos  |-> infos,
                          sectors      |-> dr.sectors]])))))))

\* the loops over the track blocks; sizes: the entries of the track-size
\* table still to visit (a zero entry has no block; the standard layout has
\* a block for each of its `tracks`)
RECURSIVE dskTracks(_, _, _, _)
dskTracks(st, ext, sizes, acc) ==
    IF sizes = <<>> THEN [x |-> FALSE, tracks |-> acc]
    ELSE IF sizes[1] = 0 THEN dskTracks(st, ext, Tail(sizes), acc)
    ELSE Bind(dskTrack(st, ext), LAMBDA t :
         IF t.x THEN Threw
         ELSE dskTracks(t.st, ext, Tail(sizes), Append(acc, t.track)))

\* sector id -> sector number of DiskPos: id_ - 1 as an unsigned int
Minus1(id) == IF id = 0 THEN 2147483647 ELSE id - 1

\* the end of the constructor: properties_ from the largest sector count and
\* size code, then sectors_; DiskPos throws on an info outside the geometry
dskFinish(ext, tracks, sides, trackSizes, trks) ==
    Bind(DiskProperties(tracks, sides,
                        (CHOOSE m \in {0} \cup {trks[i].sectorCount : i \in 1..Len(trks)} :
                            \A i \in 1..Len(trks) : trks[i].sectorCount <= m),
                        SECTOR_SIZE_UNIT *
                        (CHOOSE m \in {0} \cup {trks[i].sectorSize : i \in 1..Len(trks)} :
                            \A i \in 1..Len(trks) : trks[i].sectorSize <= m)), LAMBDA p :
    IF \E q \in Places(trks) :
          ~validate(p, trks[q[1]].sectorInfos[q[2]].track, trks[q[1]].sectorInfos[q[2]].side,
                    Minus1(trks[q[1]].sectorInfos[q[2]].id))
    THEN Threw
    ELSE [x          |-> FALSE,
          fmt        |-> "dsk",
          extended   |-> ext,
          properties |-> p,
          modified   |-> FALSE,
          trackSizes |-> trackSizes,
          tracks     |-> trks,
          sectors    |-> SectorMap([q \in Places(trks) |->
                            DiskPosAt(p, trks[q[1]].sectorInfos[q[2]].track,
                                      trks[q[1]].sectorInfos[q[2]].side,
                                      trks[q[1]].sectorInfos[q[2]].id - 1)])])

\* DSK::DSK(path)
DSK(f) ==
    Bind(StRead(Stream(f, 0, TRUE), Len(stag)), LAMBDA tg :
    IF ~tg[2].ok THEN Threw
    ELSE Bind(StRead(StSeek(tg[2], tg[2].pos + 14), 2), LAMBDA hs :
         Bind(hs[1], LAMBDA hb :
         IF tg[1] = stag
         THEN Bind(dskTracks(StSeek(hs[2], hs[2].pos + 2 + 204), FALSE,
                             [i \in 1..hb[1] |-> 1], <<>>), LAMBDA r :
              IF r.x THEN Threw ELSE dskFinish(FALSE, hb[1], hb[2], <<>>, r.tracks))
         ELSE IF tg[1] = etag
         THEN Bind(StRead(StSeek(hs[2], hs[2].pos + 2), hb[1] * hb[2]), LAMBDA ts :
              Bind(dskTracks(StSeek(ts[2], DATA_ALIGNMENT), TRUE, ts[1], <<>>),
                   LAMBDA r :
              IF r.x THEN Threw
              ELSE dskFinish(TRUE, hb[1], hb[2], ts[1], r.tracks)))
         ELSE dskFinish(FALSE, hb[1], hb[2], <<>>, <<>>))))

\* the Track DSK::write makes for a position that sectors_ does not hold
dskNewTrack(d, pos, data) ==
    Bind(DiskPosOf(d.properties, pos), LAMBDA dpos :
    [track       |-> dpos.track % 256,
     side        |-> dpos.head % 256,
     sectorSize  |-> (d.properties.sectorSize \div SECTOR_SIZE_UNIT) % 256,
     sectorCount |-> d.properties.sectors % 256,
     gap         |-> 27,
     filler      |-> 229,
     sectorInfos |-> [i \in 1..(d.properties.sectors % 256) |->
                        [track      |-> dpos.track % 256,
                         side       |-> dpos.head % 256,
                         id         |-> i % 256,
                         size       |-> (d.properties.sectorSize \div SECTOR_SIZE_UNIT) % 256,
                         sreg1      |-> 0,
                         sreg2      |-> 0,
                         dataLength |-> IF d.extended THEN d.properties.sectorSize % 65536
                                        ELSE 0]],
     sectors     |-> [i \in 1..(d.properties.sectors % 256) |->
                        IF i = dpos.sector + 1 THEN data ELSE <<>>]])

\* DSK::write(pos, sector); x: it threw
dskWrite(d, pos, data) ==
    IF pos > maxPos(d.properties) THEN [d EXCEPT !.x = TRUE]
    ELSE IF data # <<>> /\ BLen(data) # d.properties.sectorSize THEN [d EXCEPT !.x = TRUE]
    ELSE IF pos \in DOMAIN d.sectors
    THEN [d EXCEPT !.tracks[d.sectors[pos][1]].sectors[d.sectors[pos][2]] = data,
                   !.modified = TRUE, !.x = FALSE]
    ELSE Bind(dskNewTrack(d, pos, data), LAMBDA t :
         Bind({DiskPosAt(d.properties, t.track, t.side, i) : i \in 0..(t.sectorCount - 1)},
              LAMBDA on :
         [d EXCEPT
            !.tracks = Append(@, t),
            !.sectors = [q \in DOMAIN @ \cup on |->
                           IF q \in on
                           THEN <<Len(d.tracks) + 1,
                                  1 + CHOOSE i \in 0..(t.sectorCount - 1) :
                                         q = DiskPosAt(d.properties, t.track, t.side, i)>>
                           ELSE @[q]],
            !.modified = TRUE, !.x = FALSE]))

Le16(v) == <<v % 256, (v \div 256) % 256>>

\* seekp(at) after hdr was written, then data
Overlay(hdr, at, data) ==
    SubSeq(hdr \o Zeros(at - Len(hdr)), 1, at) \o data
    \o SubSeq(hdr, at + Len(data) + 1, Len(hdr))

\* one track block as DSK::save writes it
dskTrackBytes(t, ext) ==
    Overlay(trackTag \o <<0, 0, 0, 0, t.track, t.side>>
            \o (IF ext THEN <<0, 0>> ELSE <<1, 0>>)
            \o <<t.sectorSize, t.sectorCount, t.gap, t.filler>>
            \o Concat([j \in 1..Len(t.sectorInfos) |->
                         <<t.sectorInfos[j].track, t.sectorInfos[j].side,
                           t.sectorInfos[j].id, t.sectorInfos[j].size,
                           t.sectorInfos[j].sreg1, t.sectorInfos[j].sreg2>>
                         \o Le16(t.sectorInfos[j].dataLength)]),
            DATA_ALIGNMENT,
            Concat([j \in 1..Len(t.sectors) |-> BToSeq(t.sectors[j])]))

\* "fsp 1.1.0" in the 14 bytes of the creator field
creator == <<102, 115, 112, 32, 49, 46, 49, 46, 48, 0, 0, 0, 0, 0>>

\* a DSK file: the disk header (tag, creator, tracks, sides, track size, the
\* track-size table or 204 unused bytes, padded to DATA_ALIGNMENT), then the
\* track blocks
dskBytes(ext, tracks, sides, trackSize, trackSizes, trks) ==
    Bind((IF ext THEN etag ELSE stag) \o creator
         \o <<tracks % 256, sides % 256>> \o Le16(trackSize)
         \o (IF ext THEN trackSizes ELSE Zeros(204)), LAMBDA h :
    h \o Zeros((DATA_ALIGNMENT - (Len(h) % DATA_ALIGNMENT)) % DATA_ALIGNMENT)
      \o Concat([i \in 1..Len(trks) |-> dskTrackBytes(trks[i], ext)]))

\* DSK::save(path)
dskSave(d) ==
    dskBytes(d.extended, d.properties.tracks, d.properties.heads,
             IF d.extended THEN 0
             ELSE d.properties.sectors * d.properties.sectorSize + SECTOR_SIZE_UNIT,
             d.trackSizes, d.tracks)

----------------------------------------------------------------------------
(* IMD (imd.cpp, imd.h)                                                     *)

SS_INVALID == 255

ss2size(ss) == IF ss \in 0..6 THEN 128 * 2^ss ELSE 0

size2ss(n) ==
    IF \E ss \in 0..6 : ss2size(ss) = n
    THEN CHOOSE ss \in 0..6 : ss2size(ss) = n
    ELSE SS_INVALID

\* the sector records of one track: a type byte each; 0: no data, odd: the
\* bytes of the sector, even: one byte that fills the sector
RECURSIVE imdData(_, _, _, _)
imdData(st, n, len, acc) ==
    IF n = 0 THEN [st |-> st, sectors |-> acc]
    ELSE Bind(StRead(st, 1), LAMBDA hr :
         IF hr[1][1] = 0 THEN imdData(hr[2], n - 1, len, Append(acc, <<>>))
         ELSE IF hr[1][1] % 2 = 1
         THEN Bind(StRead(hr[2], len), LAMBDA dr :
              imdData(dr[2], n - 1, len, Append(acc, BOf(dr[1]))))
         ELSE Bind(StRead(hr[2], 1), LAMBDA fr :
              imdData(fr[2], n - 1, len, Append(acc, BFill(len, fr[1][1])))))

\* "read track by track and sector by sector": until the mode byte cannot be read
RECURSIVE imdTracks(_, _)
imdTracks(st, acc) ==
    Bind(StRead(st, 1), LAMBDA mr :
    IF ~mr[2].ok THEN [x |-> FALSE, tracks |-> acc]
    ELSE IF mr[1][1] > 5 THEN Threw
    ELSE Bind(StRead(mr[2], 4), LAMBDA h :
         Bind(h[1], LAMBDA hb :
         IF hb[4] > 6 THEN Threw
         ELSE Bind(StRead(h[2], hb[3]), LAMBDA nm :
              Bind(StRead(nm[2], IF (hb[2] \div 128) % 2 = 1 THEN hb[3] ELSE 0), LAMBDA cm :
              Bind(StRead(cm[2], IF (hb[2] \div 64) % 2 = 1 THEN hb[3] ELSE 0), LAMBDA hm :
              Bind(imdData(hm[2], hb[3], ss2size(hb[4]), <<>>), LAMBDA dr :
              imdTracks(dr.st,
                        Append(acc, [mode         |-> mr[1][1],
                                     cylinder     |-> hb[1],
                                     head         |-> hb[2],
                                     nsectors     |-> hb[3],
                                     ssize        |-> hb[4],
                                     numberingMap |-> nm[1],
                                     cylinderMap  |-> cm[1],
                                     headMap      |-> hm[1],
                                     sectors      |-> dr.sectors])))))))))

\* the sector count of the geometry: the largest, or on a mismatch the count
\* that more tracks have
RECURSIVE imdSectors(_, _, _)
imdSectors(trks, i, n) ==
    IF i > Len(trks) THEN n
    ELSE imdSectors(trks, i + 1,
            IF n > 0 /\ n # trks[i].nsectors
            THEN (IF Cardinality({j \in 1..Len(trks) : trks[j].nsectors = n})
                      < Cardinality({j \in 1..Len(trks) : trks[j].nsectors = trks[i].nsectors})
                  THEN trks[i].nsectors ELSE n)
            ELSE (IF n < trks[i].nsectors THEN trks[i].nsectors ELSE n))

\* the largest value of f over 1..n, at least 0
MaxOf(n, f(_)) == CHOOSE m \in {0} \cup {f(i) : i \in 1..n} : \A i \in 1..n : f(i) <= m

\* the end of the constructor: the tracks sorted by cylinder, properties_,
\* then sectors_; DiskPos throws on a sector number outside the geometry
imdFinish(unsorted) ==
    Bind([k \in 1..Len(unsorted) |->
            unsorted[CHOOSE i \in 1..Len(unsorted) :
                        k = Cardinality({j \in 1..Len(unsorted) :
                                \/ unsorted[j].cylinder < unsorted[i].cylinder
                                \/ unsorted[j].cylinder = unsorted[i].cylinder /\ j <= i})]],
         LAMBDA trks :
    Bind(DiskProperties(MaxOf(Len(trks), LAMBDA i : trks[i].cylinder) + 1,
                        MaxOf(Len(trks), LAMBDA i : trks[i].head) + 1,
                        imdSectors(trks, 1, 0),
                        MaxOf(Len(trks), LAMBDA i : ss2size(trks[i].ssize))), LAMBDA p :
    IF \E q \in Places(trks) :
          ~validate(p, trks[q[1]].cylinder, trks[q[1]].head % 2,
                    Minus1(trks[q[1]].numberingMap[q[2]]))
    THEN Threw
    ELSE [x          |-> FALSE,
          fmt        |-> "imd",
          properties |-> p,
          modified   |-> FALSE,
          tracks     |-> trks,
          sectors    |-> SectorMap([q \in Places(trks) |->
                            DiskPosAt(p, trks[q[1]].cylinder, trks[q[1]].head % 2,
                                      trks[q[1]].numberingMap[q[2]] - 1)])]))

\* IMD::IMD(path): [hang |-> TRUE] when the loop that skips the comment
\* never meets 0x1a
IMD(f) ==
    IF \A i \in 30..Len(f) : f[i] # 26 THEN [x |-> FALSE, hang |-> TRUE]
    ELSE Bind(imdTracks(Stream(f, CHOOSE i \in 30..Len(f) :
                                     f[i] = 26 /\ \A j \in 30..(i - 1) : f[j] # 26,
                               TRUE), <<>>), LAMBDA r :
         IF r.x THEN Threw ELSE imdFinish(r.tracks))

\* the Track IMD::write makes for a position that sectors_ does not hold
imdNewTrack(d, pos, data) ==
    Bind(DiskPosOf(d.properties, pos), LAMBDA dpos :
    [mode         |-> IF d.tracks = <<>> THEN 5 ELSE d.tracks[1].mode,
     cylinder     |-> dpos.track % 256,
     head         |-> dpos.head % 256,
     nsectors     |-> d.properties.sectors % 256,
     ssize        |-> size2ss(BLen(data)),
     numberingMap |-> IF d.tracks = <<>>
                      THEN [i \in 1..(d.properties.sectors % 256) |-> i % 256]
                      ELSE d.tracks[1].numberingMap,
     cylinderMap  |-> <<>>,
     headMap      |-> <<>>,
     sectors      |-> [i \in 1..(d.properties.sectors % 256) |->
                         IF i = dpos.sector + 1 THEN data ELSE <<>>]])

\* the sectors i of the new track for which the loop over sectors_ gets past
\* numberingMap_.at(i) and DiskPos
imdPlaced(d, t) ==
    {i \in 1..t.nsectors :
        \A j \in 1..i : /\ j <= Len(t.numberingMap)
                        /\ validate(d.properties, t.cylinder, t.head,
                                    Minus1(t.numberingMap[j]))}

\* IMD::write(pos, sector); x: it threw.  When the loop over the new track
\* throws, the entries of sectors_ made so far point into the Track that
\* was never stored: they are kept as track index 0
imdWrite(d, pos, data) ==
    IF pos > maxPos(d.properties) THEN [d EXCEPT !.x = TRUE]
    ELSE IF data # <<>> /\ BLen(data) # d.properties.sectorSize THEN [d EXCEPT !.x = TRUE]
    ELSE IF pos \in DOMAIN d.sectors
    THEN [d EXCEPT !.tracks[d.sectors[pos][1]].sectors[d.sectors[pos][2]] = data,
                   !.modified = TRUE, !.x = FALSE]
    ELSE Bind(imdNewTrack(d, pos, data), LAMBDA t :
         IF t.ssize = SS_INVALID THEN [d EXCEPT !.x = TRUE]
         ELSE Bind(imdPlaced(d, t), LAMBDA placed :
              Bind({DiskPosAt(d.properties, t.cylinder, t.head, t.numberingMap[i] - 1) :
                       i \in placed}, LAMBDA on :
              [d EXCEPT
                 !.tracks = IF placed = 1..t.nsectors THEN Append(@, t) ELSE @,
                 !.sectors = [q \in DOMAIN @ \cup on |->
                                IF q \in on
                                THEN <<IF placed = 1..t.nsectors THEN Len(d.tracks) + 1 ELSE 0,
                                       CHOOSE i \in placed :
                                          /\ q = DiskPosAt(d.properties, t.cylinder, t.head,
                                                           t.numberingMap[i] - 1)
                                          /\ \A j \in placed :
                                                q = DiskPosAt(d.properties, t.cylinder, t.head,
                                                              t.numberingMap[j] - 1) => j <= i>>
                                ELSE @[q]],
                 !.modified = IF placed = 1..t.nsectors THEN TRUE ELSE @,
                 !.x = (placed # 1..t.nsectors)])))

\* a save that knows the record of type 1 only
rawRecord(data) == <<1>> \o BToSeq(data)

\* the record IMD::save writes for a sector: type 0 for an empty one, type 2
\* and the byte for one whose bytes are all the same, else type 1 and the bytes
imdRecord(data) ==
    IF data = <<>> THEN <<0>>
    ELSE IF Len(data) = 1 THEN <<2, data[1][2]>>
    ELSE <<1>> \o BToSeq(data)

\* one track of an IMD file: mode, cylinder, head, count, size code, the
\* maps, then the sector records recs
imdTrackBytes(t, recs) ==
    <<t.mode, t.cylinder, t.head, t.nsectors, t.ssize>>
    \o t.numberingMap
    \o (IF (t.head \div 128) % 2 = 1 THEN t.cylinderMap ELSE <<>>)
    \o (IF (t.head \div 64) % 2 = 1 THEN t.headMap ELSE <<>>)
    \o Concat(recs)

\* "IMD 1.17: " and "mm/dd/yyyy hh:mm:ss" of the time of the save, "\r\n",
\* "fsp 1.1.0", 0x1a
imdHeader ==
    <<73, 77, 68, 32, 49, 46, 49, 55, 58, 32>>
    \o <<48, 48, 47, 48, 55, 47, 50, 48, 50, 54, 32, 49, 50, 58, 48, 48, 58, 48, 48>>
    \o <<13, 10, 102, 115, 112, 32, 49, 46, 49, 46, 48, 26>>

\* IMD::save(path)
imdSave(d) ==
    imdHeader
    \o Concat([i \in 1..Len(d.tracks) |->
                 imdTrackBytes(d.tracks[i],
                               [j \in 1..Len(d.tracks[i].sectors) |->
                                   imdRecord(d.tracks[i].sectors[j])])])

----------------------------------------------------------------------------
(* Disk::create (disk.cpp)                                                  *)

\* IMD::detect: the first ten bytes match "IMD\s[0-9]\.[0-9]{2}:\s"
imdDetect(f) ==
    /\ Len(f) >= 10
    /\ \E b \in {SubSeq(f, 1, 10)} :
          /\ SubSeq(b, 1, 3) = <<73, 77, 68>>
          /\ b[4] \in {9, 10, 11, 12, 13, 32} /\ b[10] \in {9, 10, 11, 12, 13, 32}
          /\ b[5] \in 48..57 /\ b[6] = 46 /\ b[7] \in 48..57 /\ b[8] \in 48..57
          /\ b[9] = 58

\* DSK::detect: the file starts with one of the two disk tags
dskDetect(f) == Len(f) >= Len(stag) /\ SubSeq(f, 1, Len(stag)) \in {stag, etag}

\* Disk::create(path): the object, Threw, a hang, or [none |-> TRUE] for a
\* file that is neither
Disk_create(f) ==
    IF imdDetect(f) THEN IMD(f)
    ELSE IF dskDetect(f) THEN DSK(f)
    ELSE [x |-> FALSE, none |-> TRUE]

\* there is an object: create returned one
Loaded(d) == "fmt" \in DOMAIN d

\* Disk::write and Disk::save of the object at hand
Disk_write(d, pos, data) ==
    IF d.fmt = "imd" THEN imdWrite(d, pos, data) ELSE dskWrite(d, pos, data)

Disk_save(d) == IF d.fmt = "imd" THEN imdSave(d) ELSE dskSave(d)

----------------------------------------------------------------------------
(* A DSK or IMD object on its own: create, write, save and create again     *)

\* writes to one object, and saves of it, in one run
MaxWrites == 2
MaxSaves == 2

\* a sector of n bytes that are not all the same
Mixed(n, v) == BCat(BFill(1, v + 1), BFill(n - 1, v))

\* a DSK track of two 256-byte sectors with the ids given
DskTrack(track, side, ids, datas, ext) ==
    [track |-> track, side |-> side, sectorSize |-> 1, sectorCount |-> Len(ids),
     gap |-> 78, filler |-> 229,
     sectorInfos |-> [j \in 1..Len(ids) |->
                        [track |-> track, side |-> side, id |-> ids[j], size |-> 1,
                         sreg1 |-> 0, sreg2 |-> 0,
                         dataLength |-> IF ext THEN BLen(datas[j]) ELSE 0]],
     sectors |-> datas]

\* an IMD track of sectors with the numbering given
ImdTrack(cylinder, head, ssize, numbering) ==
    [mode |-> 5, cylinder |-> cylinder, head |-> head, nsectors |-> Len(numbering),
     ssize |-> ssize, numberingMap |-> numbering, cylinderMap |-> <<>>, headMap |-> <<>>]

\* the image files of the runs:
\*  a standard DSK of two single-sided tracks;
\*  a standard DSK whose header says two sides (its two blocks are cylinder 0);
\*  an extended DSK of two tracks of which the second is not in the file;
\*  an extended DSK with reversed sector ids and a sector without data;
\*  an IMD of two cylinders with records of type 1, 2 and 0;
\*  an IMD that holds cylinder 1 only, numbered 2, 1, with a type 1 record of
\*  equal bytes and a type 4 record; its cylinder 0 is not in the file
ImageFiles ==
    { dskBytes(FALSE, 2, 1, 768, <<>>,
               << DskTrack(0, 0, <<1, 2>>, <<Mixed(256, 10), BFill(256, 11)>>, FALSE),
                  DskTrack(1, 0, <<1, 2>>, <<BFill(256, 12), Mixed(256, 13)>>, FALSE) >>),
      dskBytes(FALSE, 2, 2, 768, <<>>,
               << DskTrack(0, 0, <<1, 2>>, <<Mixed(256, 20), BFill(256, 21)>>, FALSE),
                  DskTrack(0, 1, <<1, 2>>, <<BFill(256, 22), Mixed(256, 23)>>, FALSE) >>),
      dskBytes(TRUE, 2, 1, 0, <<3, 0>>,
               << DskTrack(0, 0, <<1, 2>>, <<Mixed(256, 30), BFill(256, 31)>>, TRUE) >>),
      dskBytes(TRUE, 2, 1, 0, <<2, 3>>,
               << DskTrack(0, 0, <<2, 1>>, <<Mixed(256, 40), <<>> >>, TRUE),
                  DskTrack(1, 0, <<1, 2>>, <<BFill(256, 42), Mixed(256, 43)>>, TRUE) >>),
      imdHeader
      \o imdTrackBytes(ImdTrack(0, 0, 1, <<1, 2>>),
                       << <<1>> \o BToSeq(Mixed(256, 50)), <<2, 51>> >>)
      \o imdTrackBytes(ImdTrack(1, 0, 1, <<1, 2>>),
                       << <<0>>, <<1>> \o BToSeq(Mixed(256, 53)) >>),
      imdHeader
      \o imdTrackBytes(ImdTrack(1, 0, 0, <<2, 1>>),
                       << <<1>> \o BToSeq(BFill(128, 60)), <<4, 61>> >>) }

\* the sectors a run writes: none, a full one of equal bytes, a full one of
\* mixed bytes, one that is a byte short
WriteData(p) ==
    { <<>>, BFill(p.sectorSize, 9), Mixed(p.sectorSize, 7), BFill(p.sectorSize - 1, 9) }

\* what sectors_ and the sectors behind it hold: position -> bytes
Content(d) == [pos \in DOMAIN d.sectors |-> ImageRead(d, pos)]

\* some entry of sectors_ points into a Track that no longer exists
Dangling(d) == \E pos \in DOMAIN d.sectors : d.sectors[pos][1] = 0

NoWrite == [pos |-> 0, data |-> <<>>, x |-> FALSE, mapped |-> FALSE, done |-> FALSE]

InitDisk ==
    /\ kind = "hc"
    /\ props = Geometry("hc")
    /\ file = <<>>
    /\ phase = "unmounted"
    /\ sectors = <<>>
    /\ modified = FALSE
    /\ fatEntries = <<>>
    /\ dirty = FALSE
    /\ remounted = FALSE
    /\ last = NoOp
    /\ life = "none"
    /\ ops = 0
    /\ mounts = 0
    /\ saved = FALSE
    /\ NoThreads /\ NoProbe
    /\ \E f \in ImageFiles :
          img = [at |-> "file", f |-> f, d |-> <<>>, w |-> NoWrite, before |-> <<>>,
                 fresh |-> FALSE, writes |-> 0, saves |-> 0]

\* the filesystem and its threads take no part
DiskOnly ==
    UNCHANGED <<kind, props, file, phase, sectors, modified, fatEntries, dirty, remounted,
                last, life, ops, mounts, saved, pc, lock, snapshot, probe>>

\* Disk::create(path)
Construct ==
    /\ DiskOnly
    /\ img.at = "file"
    /\ \E d \in {Disk_create(img.f)} :
          img' = [img EXCEPT !.at = IF Loaded(d) THEN "open" ELSE "failed",
                             !.d = d, !.w = NoWrite]

\* disk->write(pos, sector)
ImageWrite(pos, data) ==
    /\ DiskOnly
    /\ img.at = "open"
    /\ pos \in 0..(maxPos(img.d.properties) + 1)
    /\ data \in WriteData(img.d.properties)
    /\ img.writes < MaxWrites
    /\ \E d \in {Disk_write(img.d, pos, data)} :
          img' = [img EXCEPT !.at = IF Dangling(d) THEN "undefined" ELSE "open",
                             !.d = d,
                             !.w = [pos |-> pos, data |-> data, x |-> d.x,
                                    mapped |-> pos \in DOMAIN img.d.sectors, done |-> TRUE],
                             !.writes = @ + 1]

\* disk->save(path), then Disk::create(path) of what was saved
Reopen ==
    /\ DiskOnly
    /\ img.at = "open"
    /\ img.saves < MaxSaves
    /\ \E f \in {Disk_save(img.d)} :
       \E d \in {Disk_create(f)} :
          img' = [img EXCEPT !.at = IF Loaded(d) THEN "open" ELSE "failed",
                             !.f = f,
                             !.d = d,
                             !.w = NoWrite,
                             !.before = Content(img.d),
                             !.fresh = ~img.d.modified,
                             !.saves = @ + 1]

\* every position of the largest geometry of the runs, and one more
Positions == 0..8

NextDisk ==
    \/ Construct
    \/ \E pos \in Positions :
          \E data \in UNION {WriteData(DiskProperties(0, 0, 0, n)) : n \in {128, 256}} :
             ImageWrite(pos, data)
    \/ Reopen

SpecDisk == InitDisk /\ [][NextDisk]_vars

\* image files whose tracks are not alike:
\*  an IMD whose cylinder 0 has sectors of 256 bytes and whose cylinder 1 has
\*  sectors of 128 bytes;
\*  an extended DSK whose second sector has a data length of 128 bytes under
\*  a size code of 256;
\*  an IMD of one track whose head byte has the cylinder-map flag 0x80;
\*  an IMD of two sides whose second head byte has the head-map flag 0x40
UnevenFiles ==
    { imdHeader
      \o imdTrackBytes(ImdTrack(0, 0, 1, <<1, 2>>),
                       << <<1>> \o BToSeq(Mixed(256, 70)), <<2, 71>> >>)
      \o imdTrackBytes(ImdTrack(1, 0, 0, <<1, 2>>),
                       << <<1>> \o BToSeq(Mixed(128, 72)), <<2, 73>> >>),
      dskBytes(TRUE, 1, 1, 0, <<3>>,
               << DskTrack(0, 0, <<1, 2>>, <<Mixed(256, 80), BFill(128, 81)>>, TRUE) >>),
      imdHeader
      \o imdTrackBytes([ImdTrack(0, 128, 1, <<1, 2>>) EXCEPT !.cylinderMap = <<0, 0>>],
                       << <<1>> \o BToSeq(Mixed(256, 90)), <<2, 91>> >>),
      imdHeader
      \o imdTrackBytes(ImdTrack(0, 0, 0, <<1, 2>>),
                       << <<1>> \o BToSeq(Mixed(128, 92)), <<2, 93>> >>)
      \o imdTrackBytes([ImdTrack(0, 65, 0, <<1, 2>>) EXCEPT !.headMap = <<1, 1>>],
                       << <<2, 94>>, <<1>> \o BToSeq(Mixed(128, 95)) >>) }

InitUneven ==
    /\ kind = "hc"
    /\ props = Geometry("hc")
    /\ file = <<>>
    /\ phase = "unmounted"
    /\ sectors = <<>>
    /\ modified = FALSE
    /\ fatEntries = <<>>
    /\ dirty = FALSE
    /\ remounted = FALSE
    /\ last = NoOp
    /\ life = "none"
    /\ ops = 0
    /\ mounts = 0
    /\ saved = FALSE
    /\ NoThreads /\ NoProbe
    /\ \E f \in UnevenFiles :
          img = [at |-> "file", f |-> f, d |-> <<>>, w |-> NoWrite, before |-> <<>>,
                 fresh |-> FALSE, writes |-> 0, saves |-> 0]

SpecUneven == InitUneven /\ [][NextDisk]_vars

\* image files with a track that holds fewer sectors than the geometry has:
\*  an extended DSK whose cylinder 1 holds sector 1 only;
\*  an IMD whose cylinder 1 holds sector 1 only
ShortTrackFiles ==
    { dskBytes(TRUE, 2, 1, 0, <<3, 2>>,
               << DskTrack(0, 0, <<1, 2>>, <<Mixed(256, 100), BFill(256, 101)>>, TRUE),
                  DskTrack(1, 0, <<1>>, <<Mixed(256, 102)>>, TRUE) >>),
      imdHeader
      \o imdTrackBytes(ImdTrack(0, 0, 1, <<1, 2>>),
                       << <<1>> \o BToSeq(Mixed(256, 110)), <<2, 111>> >>)
      \o imdTrackBytes(ImdTrack(1, 0, 1, <<1>>),
                       << <<1>> \o BToSeq(Mixed(256, 112)) >>) }

InitShortTrack ==
    /\ kind = "hc"
    /\ props = Geometry("hc")
    /\ file = <<>>
    /\ phase = "unmounted"
    /\ sectors = <<>>
    /\ modified = FALSE
    /\ fatEntries = <<>>
    /\ dirty = FALSE
    /\ remounted = FALSE
    /\ last = NoOp
    /\ life = "none"
    /\ ops = 0
    /\ mounts = 0
    /\ saved = FALSE
    /\ NoThreads /\ NoProbe
    /\ \E f \in ShortTrackFiles :
          img = [at |-> "file", f |-> f, d |-> <<>>, w |-> NoWrite, before |-> <<>>,
                 fresh |-> FALSE, writes |-> 0, saves |-> 0]

SpecShortTrack == InitShortTrack /\ [][NextDisk]_vars

----------------------------------------------------------------------------
(* IMD::IMD step by step: the loop that skips the comment                   *)

\* what operator>>(char&) skips
Whitespace == {9, 10, 11, 12, 13, 32}

\* in >> c on the stream s = [pos, c, fail] over the file f: the next byte
\* that is no white space, or the fail bit with c as it was
Extract(f, s) ==
    IF s.fail THEN s
    ELSE Bind(First({i \in (s.pos + 1)..Len(f) : f[i] \notin Whitespace}), LAMBDA i :
         IF i = 0 THEN [s EXCEPT !.fail = TRUE]
         ELSE [pos |-> i, c |-> f[i], fail |-> FALSE])

\* the image files of the runs: an IMD of one track; the same without the
\* 0x1a that ends the comment and without the track; the same with the
\* track; a file that ends in its header line
CommentFiles ==
    { imdHeader \o imdTrackBytes(ImdTrack(0, 0, 1, <<1, 2>>),
                                 << <<1>> \o BToSeq(Mixed(256, 50)), <<2, 51>> >>),
      SubSeq(imdHeader, 1, Len(imdHeader) - 1),
      SubSeq(imdHeader, 1, Len(imdHeader) - 1)
      \o imdTrackBytes(ImdTrack(0, 0, 1, <<1, 2>>), << <<2, 50>>, <<2, 51>> >>),
      SubSeq(imdHeader, 1, 10) }

InitComment ==
    /\ kind = "hc"
    /\ props = Geometry("hc")
    /\ file = <<>>
    /\ phase = "unmounted"
    /\ sectors = <<>>
    /\ modified = FALSE
    /\ fatEntries = <<>>
    /\ dirty = FALSE
    /\ remounted = FALSE
    /\ last = NoOp
    /\ life = "none"
    /\ ops = 0
    /\ mounts = 0
    /\ saved = FALSE
    /\ NoThreads /\ NoProbe
    /\ \E f \in CommentFiles :
          img = [at |-> "file", f |-> f, d |-> <<>>, w |-> NoWrite, before |-> <<>>,
                 fresh |-> FALSE, writes |-> 0, saves |-> 0]

\* Disk::create(path) finds an IMD; IMD::IMD up to the first "in >> c"
OpenImd ==
    /\ DiskOnly
    /\ img.at = "file"
    /\ imdDetect(img.f)
    /\ img' = [img EXCEPT !.at = "comment",
                          !.d = Extract(img.f, [pos |-> 29, c |-> 0, fail |-> FALSE])]

\* "while (c != 0x1a) in >> c;", one turn of the loop
SkipComment ==
    /\ DiskOnly
    /\ img.at = "comment"
    /\ img.d.c # 26
    /\ img' = [img EXCEPT !.d = Extract(img.f, img.d)]

\* the loop is left: the tracks are read, the constructor returns or throws
ReadTracks ==
    /\ DiskOnly
    /\ img.at = "comment"
    /\ img.d.c = 26
    /\ \E d \in {IMD(img.f)} :
          img' = [img EXCEPT !.at = IF Loaded(d) THEN "open" ELSE "failed",
                             !.d = d, !.w = NoWrite]

NextComment ==
    \/ OpenImd
    \/ SkipComment
    \/ ReadTracks
    \/ \E pos \in Positions :
          \E data \in UNION {WriteData(DiskProperties(0, 0, 0, n)) : n \in {128, 256}} :
             ImageWrite(pos, data)
    \/ Reopen

\* the step after the loop; the first disjunct is a case of the second and
\* names one value of img'
LeavesLoop ==
    /\ img.at = "comment"
    /\ img.d.c = 26
    /\ (img' = [img EXCEPT !.at = "failed"] \/ img'.at # "comment")

\* the steps of NextComment that leave the loop are the steps of ReadTracks
LeavesIsReadTracks == [][LeavesLoop => ReadTracks]_vars

\* the thread that constructs the object is scheduled
SpecComment ==
    /\ InitComment /\ [][NextComment]_vars
    /\ WF_vars(OpenImd) /\ WF_vars(SkipComment) /\ WF_img(LeavesLoop)

----------------------------------------------------------------------------
(* DiskPos and ipos on their own                                            *)

\* cylinders of the geometries the addressing is tried on
MaxCyl == 2

\* the geometries: every component non-zero; 9 and 16 sectors a track are the
\* counts the filesystems have a table for, 10 is one they have none for
Geometries ==
    { DiskProperties(t, h, n, 256) : t \in 1..MaxCyl, h \in 1..2, n \in {9, 10, 16} }

\* HCFS::HCFS and CPMFS::CPMFS throw unless a table fits the sector count
Constructs(k, p) ==
    IF k = "cpm" THEN Len(interleaveCpm_) = p.sectors
    ELSE Len(interleave640_) = p.sectors \/ Len(interleave320_) = p.sectors

NoCall == [op |-> "none", pos |-> 0, track |-> 0, head |-> 0, sector |-> 0, x |-> FALSE]

InitGeom ==
    /\ kind \in {"hc", "cpm"}
    /\ props \in Geometries
    /\ file = <<>>
    /\ phase = "unmounted"
    /\ sectors = <<>>
    /\ modified = FALSE
    /\ fatEntries = <<>>
    /\ dirty = FALSE
    /\ remounted = FALSE
    /\ last = NoOp
    /\ life = "none"
    /\ ops = 0
    /\ mounts = 0
    /\ saved = FALSE
    /\ NoThreads /\ NoImage
    /\ probe = NoCall

GeomOnly ==
    UNCHANGED <<kind, props, file, phase, sectors, modified, fatEntries, dirty, remounted,
                last, life, ops, mounts, saved, pc, lock, snapshot, img>>

\* DiskPos(props, pos): the members, x when validate throws
Decompose(pos) ==
    /\ GeomOnly
    /\ \E a \in {DiskPosOf(props, pos)} :
          probe' = [op |-> "DiskPos(pos)", pos |-> pos,
                    track |-> a.track, head |-> a.head, sector |-> a.sector,
                    x |-> ~validate(props, a.track, a.head, a.sector)]

\* DiskPos(props, track, head, sector): the members, x when validate throws
Compose(track, head, sector) ==
    /\ GeomOnly
    /\ probe' = [op |-> "DiskPos(chs)", pos |-> DiskPosAt(props, track, head, sector),
                 track |-> track, head |-> head, sector |-> sector,
                 x |-> ~validate(props, track, head, sector)]

\* ipos(pos) of a filesystem that was constructed on the disk: pos is the
\* argument, and track, head, sector are the members of bpos
Interleave(pos) ==
    /\ GeomOnly
    /\ Constructs(kind, props)
    /\ \E ok \in {iposOk(kind, props, pos)} :
       \E b \in {IF ok THEN DiskPosOf(props, ipos(kind, props, pos)) ELSE NoCall} :
          probe' = [op |-> "ipos", pos |-> pos,
                    track |-> b.track, head |-> b.head, sector |-> b.sector,
                    x |-> ~ok]

\* the positions of the largest geometry, and some beyond
GeomPositions == 0..(MaxCyl * 2 * 16 + 2)

NextGeom ==
    \/ \E pos \in GeomPositions : Decompose(pos)
    \/ \E track \in 0..(MaxCyl + 1), head \in 0..2, sector \in {0, 8, 9, 10, 15, 16} :
          Compose(track, head, sector)
    \/ \E pos \in GeomPositions : Interleave(pos)

SpecGeom == InitGeom /\ [][NextGeom]_vars

----------------------------------------------------------------------------
(* Properties                                                                *)

\* the indices of the entries that are not free and carry the name
Named(fat, fname) == {i \in 1..Len(fat) : ~free(fat[i]) /\ NameEq(fat[i], fname)}

\* the blocks the entries that are not free refer to
Referenced(fat) == UsedUnits(fat) \ {0}

\* C1: read-after-write. After write(path, B, o) has returned |B|, read(path,
\* |B|, o) returns |B| and the bytes B.
C1_ReadAfterWrite ==
    (phase = "mounted" /\ last.op = "write" /\ last.ret = last.len) =>
        \E r \in {read(kind, props, fatEntries, sectors, last.path, last.len, last.off)} :
            r.ret = last.len /\ r.out = last.buf

\* C2: after unlink of a file that was created under a new name and written,
\* no entry that is not free carries the name, and no entry that is not free
\* refers to a block the file had.
C2_UnlinkFreesAll ==
    (phase = "mounted" /\ last.op = "unlink" /\ life = "unlinked") =>
        /\ Named(fatEntries, Filename(last.path)) = {}
        /\ Referenced(fatEntries) \cap last.blocks = {}

\* C3: create on a name that has a file returns EEXIST, and no two entries
\* that are not free and are no extents carry the same name.
C3_CreateExisting ==
    /\ (last.op = "create" /\ last.existed) => last.ret = -Errno.EEXIST
    /\ \A i, j \in 1..Len(fatEntries) :
          (/\ ~free(fatEntries[i]) /\ ~extent(kind, fatEntries[i])
           /\ ~free(fatEntries[j]) /\ ~extent(kind, fatEntries[j])
           /\ name(fatEntries[i]) = name(fatEntries[j])) => i = j

\* the 640 KB HC image: 80 cylinders, 2 heads, 16 sectors of 256 bytes
HC640 == DiskProperties(80, 2, 16, 256)

\* C4: statfs reports f_bfree = data blocks - 2 - the number of allocation
\* units that are not zero in the entries that are not free, f_ffree = the
\* number of free entries, f_files = 128; on the 640 KB HC image with every
\* entry free, f_bfree = 318 and f_ffree = 128.
C4_Statfs ==
    /\ (phase = "mounted" /\ last.op = "statfs") =>
          /\ last.ret = 0
          /\ last.len = DataBlocks(kind, props) - 2
                        - Cardinality({ij \in (1..Len(fatEntries)) \X (1..HCFS_MAX_ALLOCATION_UNITS) :
                                          /\ ~free(fatEntries[ij[1]])
                                          /\ fatEntries[ij[1]].allocationUnits[ij[2]] # 0})
          /\ last.off = Cardinality({i \in 1..Len(fatEntries) : free(fatEntries[i])})
          /\ last.calls = 128
    /\ \E r \in {statfs("hc", HC640, loadFAT("hc", HC640, Formatted(HC640)), Root)} :
          r.ret = 0 /\ r.f_bfree = 318 /\ r.f_ffree = 128 /\ r.f_files = 128

\* C4, its case: statfs after two mutating callbacks, on a directory with
\* entries in use and blocks allocated
C4_Witness ==
    /\ phase = "mounted" /\ last.op = "statfs" /\ ops >= 2
    /\ last.len < DataBlocks(kind, props) - 2
    /\ last.off < 127

\* C5: when a callback of the session changed the directory or the data, the
\* image file after the unmount holds the directory the session ended with.
C5_UnmountSaves ==
    [][(phase = "mounted" /\ phase' = "unmounted" /\ dirty)
          => loadFAT(kind, props, DiskCreate(file')) = fatEntries]_vars

\* C6: a truncate(path, L) that follows a truncate(path, L) that returned 0
\* changes no directory entry and no block.
C6_TruncateTwice ==
    [][(/\ last.op = "truncate" /\ last.ret = 0
        /\ last'.op = "truncate" /\ ops' = ops + 1
        /\ last'.path = last.path /\ last'.len = last.len)
          => (fatEntries' = fatEntries /\ sectors' = sectors)]_vars

C8_ReaddirEmpty ==
    (/\ phase = "mounted" /\ last.op = "readdir"
     /\ \A i \in 1..Len(fatEntries) : free(fatEntries[i]))
        => (last.ret = 0 /\ last.calls = 0)

\* the entries of a name in the order of the directory
FileEntries(fat, fname) ==
    Bind(Entries(fat, fname), LAMBDA idx : [j \in 1..Len(idx) |-> fat[idx[j]]])

\* the write of 20 blocks at offset 0 to a file just created under a new name
Wrote40K ==
    /\ phase = "mounted" /\ life = "written"
    /\ last.op = "write" /\ last.buf = Pattern(20) /\ last.off = 0

\* what C9 states of the blocks and of the bytes: 20 blocks are allocated,
\* all different, and read(path, 40960, 0) returns the bytes written
Holds40K ==
    /\ Cardinality(FileBlocks(fatEntries, Filename(last.path))) = 20
    /\ SumBlocks(fatEntries, Named(fatEntries, Filename(last.path))) = 20
    /\ \E r \in {read(kind, props, fatEntries, sectors, last.path, 40960, 0)} :
          r.ret = 40960 /\ r.out = last.buf

\* C9 as the specification states it: the write leaves exactly two entries,
\* both with record count 128, numbered 0 and 1.
C9_TwoEntries ==
    Wrote40K =>
        \E es \in {FileEntries(fatEntries, Filename(last.path))} :
            /\ Holds40K
            /\ Len(es) = 2
            /\ es[1].exLo = 0 /\ es[1].recordCount = 128
            /\ es[2].exLo = 1 /\ es[2].recordCount = 128

\* C9, amended: the write allocates 20 blocks and leaves exactly three
\* entries: extent 0 and extent 1 with record count 128 and 8 blocks each,
\* extent 2 with record count 64 and 4 blocks; reading 40960 bytes at offset
\* 0 returns the bytes written.
C9_ThreeEntries ==
    Wrote40K =>
        \E es \in {FileEntries(fatEntries, Filename(last.path))} :
            /\ Holds40K
            /\ Len(es) = 3
            /\ es[1].exLo = 0 /\ es[1].recordCount = 128 /\ blocks(es[1]) = 8
            /\ es[2].exLo = 1 /\ es[2].recordCount = 128 /\ blocks(es[2]) = 8
            /\ es[3].exLo = 2 /\ es[3].recordCount = 64 /\ blocks(es[3]) = 4
            /\ \A j \in 1..3 : es[j].exHi = 0

\* C9, its case: the write has returned 40960
C9_Witness == Wrote40K /\ last.ret = 40960

\* C10: after create, write, unlink, unmount and mount, every block the file
\* had holds only the byte 0xE5.
C10_UnlinkWipe ==
    (phase = "mounted" /\ remounted /\ last.op = "unlink" /\ life = "unlinked") =>
        \A b \in last.blocks :
            readBlock(kind, props, sectors, b) = BFill(HCFS_BLOCK_SIZE, HCFS_FREE_BYTE)

\* the thread t runs a callback that mutates
Mutator(t) == pc[t].at # "idle" /\ pc[t].c.op \in MutatingOps

\* C11: lock discipline. A thread in create, unlink, truncate or write holds
\* the lock uniquely and no other thread holds it at all; while a thread holds
\* the lock shared, directory and image are as the last whole mutating
\* callback left them, and what the callback hands back is its result on that
\* state; only a step of a thread in create, unlink, truncate or write changes
\* directory or image, and a callback under the shared lock changes neither.
C11_LockDiscipline ==
    /\ [](\A t \in Threads :
            /\ Mutator(t) =>
                  lock[t] = "unique" /\ \A u \in Threads \ {t} : lock[u] = "none"
            /\ (pc[t].at # "idle" /\ ~Mutator(t)) =>
                  /\ lock[t] = "shared"
                  /\ FsNow = snapshot
                  /\ pc[t].at = "done" => pc[t].ret = Result(kind, props, snapshot, pc[t].c))
    /\ [][FsNow' # FsNow =>
             \E t \in Threads : Mutator(t) /\ lock[t] = "unique" /\ pc'[t] # pc[t]]_vars

\* C11, its case: after a write went through, a thread has read the bytes
\* under the shared lock while another thread holds the shared lock too
C11_Witness ==
    \E t, u \in Threads :
        /\ pc[t].at = "done" /\ pc[t].c.op = "read" /\ pc[t].ret[1] = BLen(SmallBuf)
        /\ lock[u] = "shared" /\ u # t
        /\ modified

\* C12: whatever the core does, the callback returns: -EIO when an exception
\* left the core (a damaged directory makes read, write and truncate throw),
\* and otherwise exactly the value the core returned, errors included
C12_Adaptor ==
    last.op # "none" => last.ret = (IF last.x THEN -Errno.EIO ELSE last.core)

\* a read of a file whose allocation unit is not on the disk came back as -EIO
C12_Witness ==
    /\ last.op = "read" /\ last.x /\ last.ret = -Errno.EIO
    /\ \E i \in 1..Len(fatEntries) :
          \E j \in 1..Len(fatEntries[i].allocationUnits) :
             fatEntries[i].allocationUnits[j] >= DataBlocks(kind, props)

C14_SectorLength ==
    img.w.done =>
        (~img.w.x <=> /\ img.w.pos <= maxPos(img.d.properties)
                      /\ \/ img.w.data = <<>>
                         \/ BLen(img.w.data) = img.d.properties.sectorSize)

\* C15: an image constructed from a file (DSK standard, DSK extended, IMD with
\* records of type 0, 1, 2), saved and parsed again without a write in
\* between, is constructed again and holds the same sector map: the same
\* positions, the same bytes at each of them
C15_ContainerRoundTrip ==
    (img.saves > 0 /\ img.fresh /\ ~img.w.done) =>
        /\ img.at = "open"
        /\ Content(img.d) = img.before

\* an IMD image came back from a save with an empty sector, a sector of equal
\* bytes and a sector of mixed bytes
C15_Witness ==
    /\ img.saves > 0 /\ img.fresh /\ ~img.w.done /\ img.at = "open"
    /\ img.d.fmt = "imd"
    /\ \E pos \in DOMAIN img.before : img.before[pos] = <<>>
    /\ \E pos \in DOMAIN img.before : Len(img.before[pos]) = 1
    /\ \E pos \in DOMAIN img.before : Len(img.before[pos]) > 1

\* a DSK image came back from a save with a position that holds nothing
C15_WitnessSparse ==
    /\ img.saves > 0 /\ img.fresh /\ ~img.w.done /\ img.at = "open"
    /\ img.d.fmt = "dsk"
    /\ DOMAIN img.before # {}
    /\ \E pos \in 0..maxPos(img.d.properties) : pos \notin DOMAIN img.d.sectors

\* the block as the specification has it: the sectors of the block in
\* interleaved order, sectorSize zero bytes for a sector without data
RECURSIVE paddedSectors(_, _, _, _, _)
paddedSectors(k, p, s, start, n) ==
    IF n = 0 THEN <<>>
    ELSE BCat(Bind(DiskRead(s, ipos(k, p, start)),
                   LAMBDA sec : IF sec = <<>> THEN BFill(p.sectorSize, 0) ELSE sec),
              paddedSectors(k, p, s, start + 1, n - 1))

\* C16: in both variants readBlock(b) gives HCFS_BLOCK_SIZE bytes, the
\* sectors of the block in interleaved order, with sectorSize zero bytes for
\* every sector the image does not hold
C16_BlockRead ==
    phase = "mounted" =>
        \A b \in 0..(DataBlocks(kind, props) - 1) :
           BlockOk(kind, props, b) =>
              /\ BLen(readBlock(kind, props, sectors, b)) = HCFS_BLOCK_SIZE
              /\ readBlock(kind, props, sectors, b)
                    = paddedSectors(kind, props, sectors, BlockStart(kind, props, b),
                                    SectorsPerBlock(props))

\* the same, for the CP/M variant alone
C16_BlockReadCpm == kind = "cpm" => C16_BlockRead

\* the CP/M variant is mounted on an image that lacks a sector of a block
C16_WitnessCpm ==
    /\ kind = "cpm" /\ phase = "mounted"
    /\ \E b \in 0..(DataBlocks(kind, props) - 1) :
          /\ BlockOk(kind, props, b)
          /\ \E i \in 0..(SectorsPerBlock(props) - 1) :
                DiskRead(sectors, ipos(kind, props, BlockStart(kind, props, b) + i)) = <<>>

\* C17: an entry that is not free counts as an extent continuation iff ex_lo
\* or ex_hi is not 0, and a readdir that succeeds lists every file once,
\* however many extents the file has
C17_ListedOnce ==
    /\ phase = "mounted" =>
          \A i \in 1..Len(fatEntries) :
             ~free(fatEntries[i]) =>
                (extent(kind, fatEntries[i])
                    <=> (fatEntries[i].exLo # 0 \/ fatEntries[i].exHi # 0))
    /\ (last.op = "readdir" /\ last.ret = 0) =>
          \A i, j \in 1..Len(last.out) : last.out[i] = last.out[j] => i = j

\* the listing alone, while no entry has ex_lo = 0 and ex_hi # 0 and no name
\* has two first extents
C17_ListedOnceNear ==
    (/\ last.op = "readdir" /\ last.ret = 0
     /\ \A i \in 1..Len(fatEntries) :
           ~free(fatEntries[i]) => (fatEntries[i].exLo = 0 => fatEntries[i].exHi = 0)
     /\ \A i, j \in 1..Len(fatEntries) :
           (/\ ~free(fatEntries[i]) /\ ~free(fatEntries[j])
            /\ fatEntries[i].exLo = 0 /\ fatEntries[j].exLo = 0
            /\ name(fatEntries[i]) = name(fatEntries[j])) => i = j)
    => \A i, j \in 1..Len(last.out) : last.out[i] = last.out[j] => i = j

\* C18: saveFAT followed by loadFAT gives the directory that was in memory,
\* entry by entry, in both variants
C18_DirectoryRoundTrip ==
    phase = "mounted" =>
        loadFAT(kind, props,
                saveFAT(kind, props, DiskState(sectors, modified, FALSE), fatEntries).s)
           = fatEntries

\* the same once Disk::write has been called in the session
C18_RoundTripModified == modified => C18_DirectoryRoundTrip

\* a directory that differs from the one on the disk went through saveFAT
\* and loadFAT after a Disk::write
C18_WitnessModified ==
    /\ phase = "mounted" /\ modified
    /\ loadFAT(kind, props, sectors) # fatEntries

\* the tables of the specification
SpecTable(n) ==
    IF n = 16 THEN <<0, 2, 4, 6, 8, 10, 12, 14, 1, 3, 5, 7, 9, 11, 13, 15>>
    ELSE <<0, 2, 4, 6, 8, 1, 3, 5, 7>>

\* C19: for a valid position ipos keeps the track and the head and replaces
\* the sector i by table[i] (the table of 16 entries on tracks of 16 sectors,
\* of 9 entries on tracks of 9), and no other valid position has the same
\* image, which is a valid position too
C19_Interleave ==
    (probe.op = "ipos" /\ probe.pos <= maxPos(props)) =>
        /\ ~probe.x
        /\ probe.track = DiskPosOf(props, probe.pos).track
        /\ probe.head = DiskPosOf(props, probe.pos).head
        /\ probe.sector = SpecTable(props.sectors)[DiskPosOf(props, probe.pos).sector + 1]
        /\ DiskPosAt(props, probe.track, probe.head, probe.sector) \in 0..maxPos(props)
        /\ \A q \in 0..maxPos(props) :
              q # probe.pos =>
                 ipos(kind, props, q) # DiskPosAt(props, probe.track, probe.head, probe.sector)

\* ipos moved a sector of the second head of a track of 16 sectors
C19_Witness ==
    /\ probe.op = "ipos" /\ ~probe.x /\ probe.pos <= maxPos(props)
    /\ props.sectors = 16 /\ probe.head = 1
    /\ probe.sector # DiskPosOf(props, probe.pos).sector

\* C20: a position below tracks * heads * sectors decomposes into a track, a
\* head and a sector below their bounds that compose to the position again;
\* a position or a triple out of range is rejected
C20_AddressBijection ==
    /\ probe.op = "DiskPos(pos)" =>
          /\ probe.x <=> probe.pos > maxPos(props)
          /\ ~probe.x =>
                /\ probe.track < props.tracks
                /\ probe.head < props.heads
                /\ probe.sector < props.sectors
                /\ DiskPosAt(props, probe.track, probe.head, probe.sector) = probe.pos
    /\ probe.op = "DiskPos(chs)" =>
          /\ probe.x <=> ~(/\ probe.track < props.tracks
                            /\ probe.head < props.heads
                            /\ probe.sector < props.sectors)
          /\ ~probe.x =>
                /\ probe.pos <= maxPos(props)
                /\ DiskPosOf(props, probe.pos)
                      = [track |-> probe.track, head |-> probe.head, sector |-> probe.sector]

\* the last position of a geometry of two heads was decomposed
C20_Witness ==
    /\ probe.op = "DiskPos(pos)" /\ ~probe.x
    /\ probe.pos = maxPos(props) /\ props.heads = 2 /\ props.tracks = MaxCyl
    /\ probe.head = 1 /\ probe.sector = props.sectors - 1

\* a position right after the last one was rejected
C20_WitnessRejected ==
    /\ probe.op = "DiskPos(pos)" /\ probe.x /\ probe.pos = maxPos(props) + 1

\* the sectors of block b as the disk s holds them, in interleaved order
BlockSectors(k, p, s, b) ==
    [i \in 0..(SectorsPerBlock(p) - 1) |-> DiskRead(s, ipos(k, p, BlockStart(k, p, b) + i))]

\* the directory fills blocks 0 and 1 exactly
WholeDirectory == Len(fatEntries) * FATENTRY_SIZE = 2 * HCFS_BLOCK_SIZE

\* C21: when the image is modified, after saveFAT every block of the data
\* area other than 0 and 1 that no entry in use refers to holds 0xE5 only,
\* and every block an entry in use refers to is as it was
C21_FlushEffect ==
    (phase = "mounted" /\ modified) =>
        \A d \in {saveFAT(kind, props, DiskState(sectors, modified, FALSE), fatEntries)} :
           ~d.x =>
              \A b \in 2..(DataBlocks(kind, props) - 1) :
                 IF b \in UsedUnits(fatEntries)
                 THEN BlockSectors(kind, props, d.s, b) = BlockSectors(kind, props, sectors, b)
                 ELSE \A i \in 0..(SectorsPerBlock(props) - 1) :
                         BlockSectors(kind, props, d.s, b)[i]
                            = BFill(props.sectorSize, HCFS_FREE_BYTE)

\* the same while the directory fills its two blocks
C21_FlushEffectWhole == WholeDirectory => C21_FlushEffect

\* a modified image with a file of two blocks and a block that is free but
\* not blank goes through saveFAT
C21_WitnessWhole ==
    /\ phase = "mounted" /\ modified /\ WholeDirectory
    /\ ~saveFAT(kind, props, DiskState(sectors, modified, FALSE), fatEntries).x
    /\ \E b \in 2..(DataBlocks(kind, props) - 1) :
          /\ b \notin UsedUnits(fatEntries)
          /\ \E i \in 0..(SectorsPerBlock(props) - 1) :
                BlockSectors(kind, props, sectors, b)[i] # BFill(props.sectorSize, HCFS_FREE_BYTE)
    /\ Cardinality(UsedUnits(fatEntries) \ {0}) >= 2

\* the step is a truncate, or a write, that asks for the file to have n bytes
AskedFor(n) ==
    /\ ops' = ops + 1
    /\ \/ last'.op = "truncate" /\ n = last'.len
       \/ last'.op = "write" /\ n = last'.off + last'.len

\* the volume has what a file of n bytes needs: the blocks the file does not
\* have yet are free, and an entry of the directory is free
RoomFor(fat, fname, n) ==
    /\ Cardinality(FreeBlocks(kind, props, fat))
          >= BlocksFor(n) - Cardinality(FileBlocks(fat, fname))
    /\ \E i \in 1..Len(fat) : free(fat[i])

\* C22: a truncate that grows the file, and a write that extends it, return
\* -ENOSPC only when the volume is out of directory entries or out of
\* blocks
C22_NoSpace ==
    [][ \A n \in {last'.len, last'.off + last'.len} :
           (AskedFor(n) /\ last'.core = -Errno.ENOSPC)
              => ~RoomFor(fatEntries, Filename(last'.path), n) ]_vars

\* the same while no entry of the file is full
C22_NoSpaceNotFull ==
    [][ \A n \in {last'.len, last'.off + last'.len} :
           (/\ AskedFor(n) /\ last'.core = -Errno.ENOSPC
            /\ \A i \in 1..Len(fatEntries) :
                  (~free(fatEntries[i]) /\ NameEq(fatEntries[i], Filename(last'.path)))
                     => ~full(fatEntries[i]))
              => ~RoomFor(fatEntries, Filename(last'.path), n) ]_vars

\* the same for a file that is first brought to the eight blocks of one
\* entry, length 8 * 2048, and then asked to be one byte longer
C22_GrowPastFull ==
    phase = "mounted" =>
       \A r \in {truncate(kind, props, fatEntries, DiskState(sectors, modified, FALSE),
                          PathA, HCFS_MAX_ALLOCATION_UNITS * HCFS_BLOCK_SIZE)} :
          (r.ret = 0 /\ ~r.d.x) =>
             \A r2 \in {truncate(kind, props, r.fat, r.d, PathA,
                                 HCFS_MAX_ALLOCATION_UNITS * HCFS_BLOCK_SIZE + 1)} :
                r2.ret = -Errno.ENOSPC =>
                   ~RoomFor(r.fat, Filename(PathA),
                            HCFS_MAX_ALLOCATION_UNITS * HCFS_BLOCK_SIZE + 1)

\* the non-empty slots of the entries of a name, in directory order and, in
\* an entry, in the order of the slots
UnitsOf(e) ==
    [j \in 1..Cardinality({j2 \in 1..HCFS_MAX_ALLOCATION_UNITS : e.allocationUnits[j2] # 0}) |->
        e.allocationUnits[CHOOSE j3 \in 1..HCFS_MAX_ALLOCATION_UNITS :
                             /\ e.allocationUnits[j3] # 0
                             /\ Cardinality({j4 \in 1..j3 : e.allocationUnits[j4] # 0}) = j]]

RECURSIVE BlockSeqFrom(_, _, _)
BlockSeqFrom(fat, idx, j) ==
    IF j > Len(idx) THEN <<>>
    ELSE UnitsOf(fat[idx[j]]) \o BlockSeqFrom(fat, idx, j + 1)

BlockSeq(fat, fname) == BlockSeqFrom(fat, Entries(fat, fname), 1)

\* the step is a truncate to a length below the size of the file that returns 0
Shrunk ==
    /\ ops' = ops + 1
    /\ last'.op = "truncate" /\ last'.core = 0 /\ ~last'.x
    /\ last'.len < FileStat(fatEntries, Filename(last'.path)).size

\* C23: after a truncate to a length L below the size that returns 0 the
\* file refers to ceil(L / 2048) blocks, and the blocks it lost are those at
\* its tail: the last extent first, the highest slot first
C23_ShrinkTail ==
    [][ Shrunk =>
           BlockSeq(fatEntries', Filename(last'.path))
              = SubSeq(BlockSeq(fatEntries, Filename(last'.path)), 1, BlocksFor(last'.len)) ]_vars

\* a file of three extents was cut down to two blocks
C23_Witness ==
    /\ last.op = "truncate" /\ last.core = 0 /\ last.len = 4000
    /\ Cardinality(last.blocks) = 20
    /\ Len(BlockSeq(fatEntries, Filename(last.path))) = 2

\* every entry of the name but the last one in directory order is full
FullButLast(fat, fname) ==
    \A j \in 1..(Len(Entries(fat, fname)) - 1) : full(fat[Entries(fat, fname)[j]])

\* the same for a file whose entries are full except the last
C23_ShrinkTailFullButLast ==
    [][ (Shrunk /\ FullButLast(fatEntries, Filename(last'.path))) =>
           BlockSeq(fatEntries', Filename(last'.path))
              = SubSeq(BlockSeq(fatEntries, Filename(last'.path)), 1, BlocksFor(last'.len)) ]_vars

\* C24: on a volume that was empty at first, every entry has a record count
\* of at most 128, and of the entries of a file all but the last one in
\* directory order are full
C24_ExtentInvariant ==
    phase = "mounted" =>
        /\ \A i \in 1..Len(fatEntries) :
              ~free(fatEntries[i]) => fatEntries[i].recordCount <= 128
        /\ FullButLast(fatEntries, Filename(PathA))

\* the same while no name has two entries with extent number 0
C24_ExtentInvariantOneFirst ==
    Cardinality({i \in 1..Len(fatEntries) :
                    ~free(fatEntries[i]) /\ fatEntries[i].exLo = 0 /\ fatEntries[i].exHi = 0
                    /\ NameEq(fatEntries[i], Filename(PathA))}) <= 1
       => C24_ExtentInvariant

\* a file of three entries, the first two full
C24_Witness ==
    /\ phase = "mounted"
    /\ Len(Entries(fatEntries, Filename(PathA))) = 3
    /\ FullButLast(fatEntries, Filename(PathA))
    /\ ~full(fatEntries[Entries(fatEntries, Filename(PathA))[3]])

\* the extent number an entry carries
ExtentIndex(e) == e.exHi * 32 + e.exLo

\* the entries of the name that the step took from the free ones
Allocated(fname) ==
    {i \in 1..Len(fatEntries) :
        /\ free(fatEntries[i]) /\ ~free(fatEntries'[i])
        /\ NameEq(fatEntries'[i], fname)}

\* the step is a truncate, or the truncate inside a write
Grows ==
    /\ ops' = ops + 1
    /\ last'.op \in {"truncate", "write"}

\* C25: every entry that a growing truncate allocates for a file carries the
\* next extent number, the number of entries the file has by then: ex_lo = k
\* (and ex_hi = 0) on HC, ex_lo = k % 32 and ex_hi = k / 32 on CP/M
C25_NextExtent ==
    [][ Grows =>
           \A i \in Allocated(Filename(last'.path)) :
              /\ fatEntries'[i].exLo
                    = (Len(Entries(fatEntries, Filename(last'.path)))
                       + Cardinality({j \in Allocated(Filename(last'.path)) : j < i})) % 32
              /\ fatEntries'[i].exHi
                    = (Len(Entries(fatEntries, Filename(last'.path)))
                       + Cardinality({j \in Allocated(Filename(last'.path)) : j < i})) \div 32 ]_vars

\* the consequence: the entries of a file carry 0, 1, 2, ... in directory
\* order
C25_NumberedInOrder ==
    phase = "mounted" =>
       \A j \in 1..Len(Entries(fatEntries, Filename(PathA))) :
          ExtentIndex(fatEntries[Entries(fatEntries, Filename(PathA))[j]]) = j - 1

\* the same for a step that finds the entries of the file numbered in order
\* and full but the last
C25_NextExtentInOrder ==
    [][ (/\ Grows
         /\ FullButLast(fatEntries, Filename(last'.path))
         /\ \A j \in 1..Len(Entries(fatEntries, Filename(last'.path))) :
               ExtentIndex(fatEntries[Entries(fatEntries, Filename(last'.path))[j]]) = j - 1) =>
           \A j \in 1..Len(Entries(fatEntries', Filename(last'.path))) :
              ExtentIndex(fatEntries'[Entries(fatEntries', Filename(last'.path))[j]]) = j - 1 ]_vars

\* a growing call gave the file its second and its third entry
C25_Witness ==
    /\ phase = "mounted" /\ last.op \in {"truncate", "write"} /\ last.core >= 0
    /\ Len(Entries(fatEntries, Filename(PathA))) = 3
    /\ \A j \in 1..3 :
          ExtentIndex(fatEntries[Entries(fatEntries, Filename(PathA))[j]]) = j - 1

\* C26: saveFAT writes the bytes of the directory into blocks 0 and 1 only:
\* past the wipe of the free blocks, the write of the directory changes no
\* sector of a block with index 2 or more
C26_DirectoryBlocks ==
    (phase = "mounted" /\ modified /\ ~FreeMapThrows(kind, props, fatEntries)) =>
        \A w \in {wipeFree(kind, props, DiskState(sectors, modified, FALSE),
                           FreeBlocks(kind, props, fatEntries), 0)} :
           \A d \in {writeFat(kind, props, w, FatBytes(fatEntries, 1, Len(fatEntries)), 0)} :
              ~d.x =>
                 \A b \in 2..(DataBlocks(kind, props) - 1) :
                    BlockSectors(kind, props, d.s, b) = BlockSectors(kind, props, w.s, b)

\* the same while the directory fills its two blocks
C26_DirectoryBlocksWhole == WholeDirectory => C26_DirectoryBlocks

\* a directory that mount read short of a sector is written back
C26_WitnessShort ==
    /\ phase = "mounted" /\ modified /\ ~FreeMapThrows(kind, props, fatEntries)
    /\ ~WholeDirectory
    /\ Len(fatEntries) * FATENTRY_SIZE > HCFS_BLOCK_SIZE

\* C27: every sector that read(pos) of a DSK or IMD object returns has no
\* bytes or as many as the sector size of the geometry
C27_SectorLength ==
    img.at = "open" =>
       \A pos \in 0..maxPos(img.d.properties) :
          BLen(ImageRead(img.d, pos)) \in {0, img.d.properties.sectorSize}

\* an object took a write of a full sector and one of no bytes
C27_WitnessWritten ==
    /\ img.at = "open" /\ img.writes = 2
    /\ img.w.done /\ ~img.w.x /\ img.w.data = <<>>
    /\ \E pos \in DOMAIN img.d.sectors :
          BLen(ImageRead(img.d, pos)) = img.d.properties.sectorSize

\* C28: the geometry of an IMD object after loading is the largest cylinder
\* plus one, the largest side (head & 1) plus one, and the largest sector
\* size in bytes; the flags 0x80 and 0x40 of a head byte are no part of the
\* number of heads
C28_ImdGeometry ==
    (img.at = "open" /\ img.d.fmt = "imd" /\ ~img.w.done) =>
        /\ img.d.properties.tracks
              = MaxOf(Len(img.d.tracks), LAMBDA i : img.d.tracks[i].cylinder) + 1
        /\ img.d.properties.heads
              = MaxOf(Len(img.d.tracks), LAMBDA i : img.d.tracks[i].head % 2) + 1
        /\ img.d.properties.sectorSize
              = MaxOf(Len(img.d.tracks), LAMBDA i : ss2size(img.d.tracks[i].ssize))

\* the same for the tracks whose head byte has no flag
C28_ImdGeometryPlain ==
    (img.at = "open" /\ img.d.fmt = "imd"
     /\ \A i \in 1..Len(img.d.tracks) : img.d.tracks[i].head < 2)
       => C28_ImdGeometry

\* an IMD whose file holds cylinder 1 only was loaded
C28_Witness ==
    /\ img.at = "open" /\ img.d.fmt = "imd" /\ ~img.w.done
    /\ img.d.properties.tracks = 2 /\ img.d.properties.heads = 1
    /\ \A i \in 1..Len(img.d.tracks) : img.d.tracks[i].cylinder = 1

\* C27 for the DSK objects alone
C27_SectorLengthDsk == (img.at = "open" /\ img.d.fmt = "dsk") => C27_SectorLength

\* the sectors of the tracks of an IMD object: <<track index, sector index>>
ImdPlaces == IF img.at = "open" /\ img.d.fmt = "imd" THEN Places(img.d.tracks) ELSE {}

\* all bytes of the payload are the same
SingleValued(data) == \A i \in 1..BLen(data) : BToSeq(data)[i] = BToSeq(data)[1]

\* what the constructor makes of one sector record of a track of size code
\* ssize
decodeRecord(rec, ssize) == imdData(Stream(rec, 0, TRUE), 1, ss2size(ssize), <<>>).sectors[1]

\* the record of save has type 0 for an empty sector, type 2 and one byte for
\* a sector of equal bytes, type 1 and the bytes otherwise
EncodingOf(data, rec) ==
    /\ rec[1] = 0 <=> data = <<>>
    /\ rec[1] = 2 <=> (data # <<>> /\ SingleValued(data))
    /\ rec[1] = 0 => rec = <<0>>
    /\ rec[1] = 2 => rec = <<2, BToSeq(data)[1]>>
    /\ rec[1] \notin {0, 2} => rec = <<1>> \o BToSeq(data)

\* C29: IMD save picks the record of a sector from its payload alone (type
\* 0, 2 or 1), and the constructor decodes the record to the same payload
C29_SaveEncoding ==
    \A q \in ImdPlaces :
       /\ EncodingOf(img.d.tracks[q[1]].sectors[q[2]],
                     imdRecord(img.d.tracks[q[1]].sectors[q[2]]))
       /\ decodeRecord(imdRecord(img.d.tracks[q[1]].sectors[q[2]]), img.d.tracks[q[1]].ssize)
             = img.d.tracks[q[1]].sectors[q[2]]

\* the same for the sectors that are as long as the size code of their track
\* says
C29_SaveEncodingSized ==
    \A q \in ImdPlaces :
       BLen(img.d.tracks[q[1]].sectors[q[2]]) \in {0, ss2size(img.d.tracks[q[1]].ssize)} =>
          /\ EncodingOf(img.d.tracks[q[1]].sectors[q[2]],
                        imdRecord(img.d.tracks[q[1]].sectors[q[2]]))
          /\ decodeRecord(imdRecord(img.d.tracks[q[1]].sectors[q[2]]),
                          img.d.tracks[q[1]].ssize)
                = img.d.tracks[q[1]].sectors[q[2]]

\* an IMD object has a sector of each kind after a write
C29_Witness ==
    /\ img.w.done /\ ~img.w.x
    /\ \E q \in ImdPlaces : imdRecord(img.d.tracks[q[1]].sectors[q[2]])[1] = 0
    /\ \E q \in ImdPlaces : imdRecord(img.d.tracks[q[1]].sectors[q[2]])[1] = 1
    /\ \E q \in ImdPlaces : imdRecord(img.d.tracks[q[1]].sectors[q[2]])[1] = 2

\* the step is a truncate that returns 0
Truncated ==
    /\ ops' = ops + 1
    /\ last'.op = "truncate" /\ last'.core = 0 /\ ~last'.x

\* the size getattr reports for the file of the call
SizeOf(fat) == getattr(kind, fat, last'.path).st_size

\* C30: after a truncate(path, L) that returns 0, getattr reports a size of
\* at least L and at most L rounded up to whole blocks, and with L below the
\* size the file had the size is no larger than before
C30_SizeAfterTruncate ==
    [][ Truncated =>
           /\ SizeOf(fatEntries') >= last'.len
           /\ SizeOf(fatEntries') <= BlocksFor(last'.len) * HCFS_BLOCK_SIZE
           /\ last'.len < SizeOf(fatEntries) => SizeOf(fatEntries') <= SizeOf(fatEntries) ]_vars

\* the same for the calls that take a block from the file or give it one
C30_SizeAfterResize ==
    [][ (Truncated /\ BlocksFor(last'.len) # Cardinality(FileBlocks(fatEntries, Filename(last'.path)))
                   /\ FullButLast(fatEntries, Filename(last'.path))) =>
           /\ SizeOf(fatEntries') >= last'.len
           /\ SizeOf(fatEntries') <= BlocksFor(last'.len) * HCFS_BLOCK_SIZE
           /\ last'.len < SizeOf(fatEntries) => SizeOf(fatEntries') <= SizeOf(fatEntries) ]_vars

\* a file of one block was brought to 4000 bytes and reports 4096
C30_Witness ==
    /\ phase = "mounted"
    /\ last.op = "truncate" /\ last.core = 0 /\ ~last.x /\ last.len = 4000
    /\ Cardinality(last.blocks) = 1
    /\ FileStat(fatEntries, Filename(last.path)).size = 2 * HCFS_BLOCK_SIZE

\* the entries a file of b blocks needs: max(1, ceil(b / 8))
EntriesFor(b) ==
    IF b = 0 THEN 1
    ELSE b \div HCFS_MAX_ALLOCATION_UNITS + (IF b % HCFS_MAX_ALLOCATION_UNITS # 0 THEN 1 ELSE 0)

\* the step is a write, or a truncate to more than the size, that succeeds
Grown ==
    /\ ops' = ops + 1
    /\ ~last'.x /\ last'.core >= 0
    /\ \/ last'.op = "write"
       \/ last'.op = "truncate" /\ last'.len > SizeOf(fatEntries)

\* C31: after a write or a growing truncate that succeeds, a file of b
\* blocks occupies max(1, ceil(b / 8)) entries of the directory
C31_NoSurplus ==
    [][ Grown =>
           Len(Entries(fatEntries', Filename(last'.path)))
              = EntriesFor(Cardinality(FileBlocks(fatEntries', Filename(last'.path)))) ]_vars

\* the same for a new file that is brought to eight blocks: it keeps its one
\* entry
C31_GrowToEight ==
    (/\ phase = "mounted"
     /\ Len(Entries(fatEntries, Filename(PathA))) = 1
     /\ FileBlocks(fatEntries, Filename(PathA)) = {}) =>
       \A r \in {truncate(kind, props, fatEntries, DiskState(sectors, modified, FALSE),
                          PathA, HCFS_MAX_ALLOCATION_UNITS * HCFS_BLOCK_SIZE)} :
          (r.ret = 0 /\ ~r.d.x) => Len(Entries(r.fat, Filename(PathA))) = 1

\* the same for the steps that find one entry of the file at most and leave
\* its last entry short of eight blocks
C31_NoSurplusShort ==
    [][ (/\ Grown
         /\ Len(Entries(fatEntries, Filename(last'.path))) <= 1
         /\ Cardinality(FileBlocks(fatEntries', Filename(last'.path)))
               % HCFS_MAX_ALLOCATION_UNITS # 0) =>
           Len(Entries(fatEntries', Filename(last'.path)))
              = EntriesFor(Cardinality(FileBlocks(fatEntries', Filename(last'.path)))) ]_vars

\* a write gave a new file twenty blocks in three entries
C31_Witness ==
    /\ phase = "mounted" /\ last.op = "write" /\ last.core = 20 * HCFS_BLOCK_SIZE
    /\ Cardinality(FileBlocks(fatEntries, Filename(PathA))) = 20
    /\ Len(Entries(fatEntries, Filename(PathA))) = 3

\* the sizes a read of the new file asks for
ReadSizes == {BLen(a[1]) : a \in WriteArgs}

\* the file reports size 0 and reads no byte
ReadsEmptyIn(fat, s, path) ==
    /\ getattr(kind, fat, path).ret = 0
    /\ getattr(kind, fat, path).st_size = 0
    /\ \A n \in ReadSizes :
          /\ read(kind, props, fat, s, path, n, 0).ret = 0
          /\ read(kind, props, fat, s, path, n, 0).out = <<>>

ReadsEmpty == ReadsEmptyIn(fatEntries, sectors, last.path)

\* the step is a create that returns 0
Created ==
    /\ ops' = ops + 1
    /\ last'.op = "create" /\ last'.core = 0

\* C32: after create(path) returns 0 the file is empty whatever happened
\* before: getattr reports size 0 and read(path, n, 0) returns 0 bytes
C32_CreatedEmpty ==
    [][ Created => ReadsEmptyIn(fatEntries', sectors', last'.path) ]_vars

\* the same while the new entry is the only one of the name
C32_CreatedEmptyAlone ==
    [][ (Created /\ Len(Entries(fatEntries', Filename(last'.path))) = 1)
           => ReadsEmptyIn(fatEntries', sectors', last'.path) ]_vars

\* the same for the calls that found no file of the name
C32_CreatedEmptyNew ==
    [][ (Created /\ ~last'.existed) => ReadsEmptyIn(fatEntries', sectors', last'.path) ]_vars

\* a file was created on a volume that has no entry of its name
C32_Witness ==
    /\ phase = "mounted" /\ last.op = "create" /\ last.core = 0
    /\ Len(Entries(fatEntries, Filename(last.path))) = 1
    /\ ReadsEmpty

\* a file was created after a file of its name was written and unlinked
C32_WitnessAgain ==
    /\ phase = "mounted" /\ last.op = "create" /\ last.core = 0
    /\ Len(Entries(fatEntries, Filename(last.path))) > 1
    /\ fatEntries[Entries(fatEntries, Filename(last.path))[2]].exLo = 1

\* the offsets a read starts at: those of the writes, and one inside the
\* first record
ReadOffsets == {a[2] : a \in WriteArgs} \cup {BLen(SmallBuf)}

\* read(path, n, offset) returns no more bytes than the size that getattr
\* reports leaves past offset
WithinSize(fat, s, path, n, offset) ==
    \A r \in {read(kind, props, fat, s, path, n, offset)} :
       (r.ret >= 0 /\ ~r.x) =>
          /\ r.ret <= (IF getattr(kind, fat, path).st_size > offset
                       THEN getattr(kind, fat, path).st_size - offset ELSE 0)
          /\ BLen(r.out) = r.ret

\* C33: for every directory loaded from an image, every offset and every
\* size, read returns at most max(0, file_size - offset) bytes, file_size
\* being the size getattr reports
C33_ReadWithinSize ==
    phase = "mounted" =>
       \A n \in ReadSizes, offset \in ReadOffsets :
          WithinSize(fatEntries, sectors, PathA, n, offset)

\* the same for the reads from the start of a file whose entries all count
\* for getattr
C33_ReadFromStart ==
    (phase = "mounted"
     /\ TotalSize(fatEntries, Entries(fatEntries, Filename(PathA)), 1)
           = FileStat(fatEntries, Filename(PathA)).size) =>
       \A n \in ReadSizes : WithinSize(fatEntries, sectors, PathA, n, 0)

\* a read of a file of twenty blocks returned all its bytes
C33_Witness ==
    /\ phase = "mounted" /\ last.op = "read" /\ last.off = 0
    /\ last.core = 20 * HCFS_BLOCK_SIZE
    /\ FileStat(fatEntries, Filename(PathA)).size = 20 * HCFS_BLOCK_SIZE

\* the slots of the entries in use that refer to a block
UsedSlots(fat) ==
    {q \in (1..Len(fat)) \X (1..HCFS_MAX_ALLOCATION_UNITS) :
        ~free(fat[q[1]]) /\ fat[q[1]].allocationUnits[q[2]] # 0}

\* C34: no block is referred to by two slots of the entries in use, and every
\* block referred to lies in the data area past the two blocks of the
\* directory
C34_AllocationSafety ==
    phase = "mounted" =>
       /\ \A q1, q2 \in UsedSlots(fatEntries) :
             fatEntries[q1[1]].allocationUnits[q1[2]] = fatEntries[q2[1]].allocationUnits[q2[2]]
                => q1 = q2
       /\ \A q \in UsedSlots(fatEntries) :
             /\ fatEntries[q[1]].allocationUnits[q[2]] >= 2
             /\ fatEntries[q[1]].allocationUnits[q[2]] < DataBlocks(kind, props)

\* a write gave a file that had one block nineteen more, in three entries
C34_Witness ==
    /\ phase = "mounted" /\ last.op = "write" /\ last.core = 20 * HCFS_BLOCK_SIZE
    /\ Cardinality(UsedSlots(fatEntries)) = 20
    /\ Cardinality({q[1] : q \in UsedSlots(fatEntries)}) = 3
    /\ fatEntries[1].allocationUnits[1] = 2 /\ fatEntries[1].recordCount = 128

\* the last step was a write that returned
Written == img.at = "open" /\ img.w.done /\ ~img.w.x

\* C35: on a DSK and on an IMD object, at a position that sectors_ holds and
\* at one that it does not, read(pos) after a write(pos, s) that returned
\* gives the bytes of s
C35_ReadAfterWrite ==
    Written => ImageRead(img.d, img.w.pos) = img.w.data

\* the same for the positions that sectors_ held before the write, and for
\* the DSK objects
C35_ReadAfterWriteMapped ==
    (Written /\ (img.w.mapped \/ img.d.fmt = "dsk")) =>
        ImageRead(img.d, img.w.pos) = img.w.data

\* a full sector was written to a position of a DSK object that sectors_ did
\* not hold, and is read back
C35_Witness ==
    /\ Written /\ ~img.w.mapped /\ img.d.fmt = "dsk"
    /\ BLen(img.w.data) = img.d.properties.sectorSize
    /\ ImageRead(img.d, img.w.pos) = img.w.data

\* the step is a write that returns
WriteStep ==
    /\ img.at = "open" /\ img'.at = "open"
    /\ img'.writes = img.writes + 1
    /\ ~img'.w.x

\* C36: a write(pos, s) that returns changes position pos only: at every
\* other position read returns the bytes it returned before
C36_WriteFrame ==
    [][ WriteStep =>
           \A q \in (0..maxPos(img.d.properties)) \ {img'.w.pos} :
              ImageRead(img'.d, q) = ImageRead(img.d, q) ]_vars

\* a write to a position that sectors_ did not hold left a sector of another
\* track as it was
C36_Witness ==
    /\ Written /\ ~img.w.mapped
    /\ \E q \in DOMAIN img.d.sectors : q # img.w.pos /\ ImageRead(img.d, q) # <<>>

\* C36 for the DSK objects alone
C36_WriteFrameDsk ==
    [][ (WriteStep /\ img.d.fmt = "dsk") =>
           \A q \in (0..maxPos(img.d.properties)) \ {img'.w.pos} :
              ImageRead(img'.d, q) = ImageRead(img.d, q) ]_vars

\* the same for the writes to a position that sectors_ holds
C36_WriteFrameMapped ==
    [][ (WriteStep /\ img'.w.mapped) =>
           \A q \in (0..maxPos(img.d.properties)) \ {img'.w.pos} :
              ImageRead(img'.d, q) = ImageRead(img.d, q) ]_vars

\* the step saves the object right after a write that returned and that read
\* gives back, and creates an object from the file
SavedAfterWrite ==
    /\ Written
    /\ ImageRead(img.d, img.w.pos) = img.w.data
    /\ img'.saves = img.saves + 1

\* C37: a sector written to a DSK or IMD object, at a position the file held
\* or on a track the file did not hold, is read back from the object that
\* is created from the saved file
C37_WrittenSurvive ==
    [][ SavedAfterWrite =>
           /\ img'.at = "open"
           /\ ImageRead(img'.d, img.w.pos) = img.w.data ]_vars

\* the same for the sectors written with data to a position that sectors_
\* holds, on an IMD object and on a DSK object that has as many tracks as its
\* header counts and whose sectors all have the length that their sector
\* info states
C37_WrittenSurviveInPlace ==
    [][ (/\ SavedAfterWrite
         /\ img.w.mapped /\ img.w.data # <<>>
         /\ \/ img.d.fmt = "imd"
            \/ /\ Len(img.d.tracks)
                     = (IF img.d.extended
                        THEN Cardinality({i \in 1..Len(img.d.trackSizes) :
                                             img.d.trackSizes[i] # 0})
                        ELSE img.d.properties.tracks)
               /\ \A q \in Places(img.d.tracks) :
                     BLen(img.d.tracks[q[1]].sectors[q[2]])
                        = (IF img.d.extended
                           THEN img.d.tracks[q[1]].sectorInfos[q[2]].dataLength
                           ELSE img.d.tracks[q[1]].sectorInfos[q[2]].size * SECTOR_SIZE_UNIT)) =>
           /\ img'.at = "open"
           /\ ImageRead(img'.d, img.w.pos) = img.w.data ]_vars

\* a full sector written over a stored one came back from the saved file
C37_Witness ==
    /\ img.at = "open" /\ img.saves > 0 /\ ~img.fresh /\ ~img.w.done
    /\ \E q \in DOMAIN img.d.sectors :
          /\ q \in DOMAIN img.before
          /\ ImageRead(img.d, q) = BFill(img.d.properties.sectorSize, 9)
          /\ img.before[q] = BFill(img.d.properties.sectorSize, 9)

C38_WitnessWrite ==
    \E t, u \in Threads :
       /\ pc[t].at = "half" /\ pc[t].c.op = "write" /\ lock[t] = "unique"
       /\ fatEntries # snapshot.fat
       /\ pc[u].at = "waiting" /\ pc[u].c.op = "write"

\* C39: the construction of an IMD object ends for every file: it has loaded
\* the image or it has failed with an error
C39_Terminates == (img.at = "file") ~> (img.at \in {"open", "failed"})

\* it ends for the files that hold a byte 0x1a after their header line, and
\* the loop is left at the first of these bytes
C39_TerminatesClosed ==
    /\ (img.at = "file" /\ \E i \in 30..Len(img.f) : img.f[i] = 26)
          ~> (img.at \in {"open", "failed"})
    /\ [](img.at = "comment" /\ img.d.c = 26 =>
             /\ img.d.pos >= 30
             /\ \A j \in 30..(img.d.pos - 1) : img.f[j] # 26)

\* the file has ended and the loop goes on
C39_Witness == img.at = "comment" /\ img.d.fail /\ img.d.c # 26
====
